---------------------------- MODULE Spec2Model ----------------------------
(***************************************************************************)
(* RustRunner: workflow loading (dependency population, validation,        *)
(* topological sort), the execution planner, the persisted run state and   *)
(* the engine's coordinating loop with its worker threads.                 *)
(*                                                                         *)
(* Strings of the program are sequences of one-character strings, so that  *)
(* split, trim, sort and concatenation are computed and not assumed.       *)
(***************************************************************************)
EXTENDS Integers, Sequences, FiniteSets, TLC

(***************************************************************************)
(* Bounds of the model.                                                    *)
(***************************************************************************)
\* largest value of --parallel / Engine::set_max_parallel that is explored
MaxParallel == 2
\* largest number of hardware threads num_cpus::get() is taken to report
MaxCpus == 2
\* workflows with explicit edges: at most this many steps ...
MaxGraphSteps == 3
\* ... and at most this many entries in all previous and next lists together
MaxGraphEdges == 4
\* workflows whose edges are derived from files: at most this many steps
MaxFileSteps == 2
\* workflows with structural violations: at most this many steps
MaxDraftSteps == 2
\* workflows with wildcards: at most this many steps
MaxTemplateSteps == 2
\* ... and at most this many files bound to a wildcard name
MaxBoundFiles == 2
\* the ids that are marked in a WorkflowState taken on its own
MaxLedgerIds == 5

(***************************************************************************)
(* Strings.                                                                *)
(***************************************************************************)
\* the characters that occur, in byte order (String's Ord compares bytes)
Alphabet == <<" ", ",", "a", "b", "c", "d", "r", "w", "x", "y", "z">>

CharRank(c) == CHOOSE i \in 1..Len(Alphabet) : Alphabet[i] = c

RECURSIVE StrLess(_, _)
\* a < b for String: lexicographic on bytes, a proper prefix is smaller
StrLess(a, b) ==
    IF b = <<>> THEN FALSE
    ELSE IF a = <<>> THEN TRUE
    ELSE IF Head(a) # Head(b) THEN CharRank(Head(a)) < CharRank(Head(b))
    ELSE StrLess(Tail(a), Tail(b))

RECURSIVE TrimStart(_)
TrimStart(s) ==
    IF s # <<>> /\ Head(s) = " " THEN TrimStart(Tail(s)) ELSE s

RECURSIVE TrimEnd(_)
TrimEnd(s) ==
    IF s # <<>> /\ s[Len(s)] = " " THEN TrimEnd(SubSeq(s, 1, Len(s) - 1)) ELSE s

\* str::trim
Trim(s) == TrimEnd(TrimStart(s))

RECURSIVE SplitFrom(_, _, _)
\* the pieces of s from position i on, cur being the piece under construction
SplitFrom(s, i, cur) ==
    IF i > Len(s) THEN <<cur>>
    ELSE IF s[i] = "," THEN <<cur>> \o SplitFrom(s, i + 1, <<>>)
    ELSE SplitFrom(s, i + 1, Append(cur, s[i]))

\* str::split(','): "a,,b" gives "a", "", "b"; "" gives one empty piece
SplitComma(s) == SplitFrom(s, 1, <<>>)

RECURSIVE MapTrim(_)
MapTrim(pieces) ==
    IF pieces = <<>> THEN <<>>
    ELSE <<Trim(Head(pieces))>> \o MapTrim(Tail(pieces))

\* file.split(',').map(|s| s.trim())
SplitTrim(s) == MapTrim(SplitComma(s))

NonEmptyOnly(pieces) == SelectSeq(pieces, LAMBDA f : f # <<>>)

RECURSIVE FlatFiles(_)
\* every comma-separated, trimmed piece of every entry of a file list, in order
FlatFiles(list) ==
    IF list = <<>> THEN <<>>
    ELSE SplitTrim(Head(list)) \o FlatFiles(Tail(list))

Range(seq) == {seq[i] : i \in 1..Len(seq)}

RECURSIVE InsertSorted(_, _)
InsertSorted(x, sorted) ==
    IF sorted = <<>> THEN <<x>>
    ELSE IF StrLess(x, Head(sorted)) THEN <<x>> \o sorted
    ELSE <<Head(sorted)>> \o InsertSorted(x, Tail(sorted))

RECURSIVE SortStrings(_)
\* Vec<String>::sort (stable; equal strings are indistinguishable)
SortStrings(seq) ==
    IF seq = <<>> THEN <<>>
    ELSE InsertSorted(seq[Len(seq)], SortStrings(SubSeq(seq, 1, Len(seq) - 1)))

\* a dedup that keeps the repeated elements
Dedup_keep(seq) == seq

RECURSIVE Dedup(_)
\* Vec::dedup: drops an element equal to the one before it
Dedup(seq) ==
    IF Len(seq) <= 1 THEN seq
    ELSE IF seq[1] = seq[2] THEN Dedup(Tail(seq))
    ELSE <<seq[1]>> \o Dedup(Tail(seq))

RECURSIVE SetToSeq(_)
\* the elements of a set of strings in some order (a HashSet's iteration)
SetToSeq(S) ==
    IF S = {} THEN <<>>
    ELSE LET x == CHOOSE y \in S : TRUE IN <<x>> \o SetToSeq(S \ {x})

(***************************************************************************)
(* Step and Workflow (workflow/model.rs).                                  *)
(***************************************************************************)
\* Step::new: the three strings are trimmed, everything else is empty, 1 thread
StepNew(id, tool, command) ==
    [id |-> Trim(id), tool |-> Trim(tool), command |-> Trim(command),
     input |-> <<>>, output |-> <<>>, previous |-> <<>>, next |-> <<>>,
     threads |-> 1]

with_input(step, file) == [step EXCEPT !.input = <<file>>]
with_output(step, file) == [step EXCEPT !.output = <<file>>]
with_threads(step, n) == [step EXCEPT !.threads = n]
depends_on(step, id) == [step EXCEPT !.previous = Append(@, id)]
\* the tests' `step.next.push(id)`
push_next(step, id) == [step EXCEPT !.next = Append(@, id)]

StepIds(steps) == {steps[i].id : i \in 1..Len(steps)}

\* steps.iter().find(|s| s.id == id): the first step with that id
FindStep(steps, id) ==
    steps[CHOOSE i \in 1..Len(steps) :
            /\ steps[i].id = id
            /\ \A j \in 1..(i - 1) : steps[j].id # id]

\* Workflow::refresh_tools: the distinct tool names, sorted
RefreshTools(steps) ==
    SortStrings(SetToSeq({steps[i].tool : i \in 1..Len(steps)}))

\* Step::outputs_exist against the set of paths that exist
OutputsExist(step, existing) ==
    IF step.output = <<>> THEN FALSE
    ELSE \A i \in 1..Len(step.output) :
            \A f \in Range(NonEmptyOnly(SplitTrim(step.output[i]))) : f \in existing

(***************************************************************************)
(* Dependency population (workflow/parser.rs).                             *)
(***************************************************************************)
ClearEdges(steps) ==
    [i \in 1..Len(steps) |-> [steps[i] EXCEPT !.previous = <<>>, !.next = <<>>]]

RECURSIVE PairUp(_, _)
PairUp(id, files) ==
    IF files = <<>> THEN <<>>
    ELSE <<[file |-> Head(files), id |-> id]>> \o PairUp(id, Tail(files))

RECURSIVE OutPairs(_)
\* (output file, declaring step) in the order the loops of lines 220-235 visit them
OutPairs(steps) ==
    IF steps = <<>> THEN <<>>
    ELSE PairUp(Head(steps).id, NonEmptyOnly(FlatFiles(Head(steps).output)))
         \o OutPairs(Tail(steps))

RECURSIVE InPairs(_)
\* (input file, consuming step) in the order the loops of lines 241-257 visit them
InPairs(steps) ==
    IF steps = <<>> THEN <<>>
    ELSE PairUp(Head(steps).id, FlatFiles(Head(steps).input))
         \o InPairs(Tail(steps))

\* a contains_key test that finds nothing
AlreadyProduced_never(map, file) == FALSE

\* the contains_key test of line 225
AlreadyProduced(map, file) == file \in DOMAIN map

RECURSIVE BuildOutputMap(_, _)
\* output_to_step, or the error of the first file that already has a producer
BuildOutputMap(pairs, map) ==
    IF pairs = <<>> THEN [err |-> FALSE, map |-> map]
    ELSE IF AlreadyProduced(map, Head(pairs).file)
         THEN [err |-> TRUE, kind |-> "MultipleProducers", file |-> Head(pairs).file,
               first |-> map[Head(pairs).file], second |-> Head(pairs).id]
    ELSE BuildOutputMap(Tail(pairs), (Head(pairs).file :> Head(pairs).id) @@ map)

RECURSIVE ProducersOf(_, _, _)
\* dependencies[id]: the producers of id's inputs, in push order
ProducersOf(id, pairs, map) ==
    IF pairs = <<>> THEN <<>>
    ELSE (IF Head(pairs).id = id /\ Head(pairs).file \in DOMAIN map
          THEN <<map[Head(pairs).file]>> ELSE <<>>)
         \o ProducersOf(id, Tail(pairs), map)

RECURSIVE ConsumersOf(_, _, _)
\* dependents[id]: the consumers of id's outputs, in push order
ConsumersOf(id, pairs, map) ==
    IF pairs = <<>> THEN <<>>
    ELSE (IF Head(pairs).file \in DOMAIN map /\ map[Head(pairs).file] = id
          THEN <<Head(pairs).id>> ELSE <<>>)
         \o ConsumersOf(id, Tail(pairs), map)

\* derive_dependencies_from_files: the edges are cleared first; on an ambiguous
\* producer the function returns before any edge is applied
derive_dependencies_from_files(steps) ==
    LET cleared == ClearEdges(steps)
        built   == BuildOutputMap(OutPairs(cleared), <<>>)
    IN  IF built.err
        THEN [ok |-> FALSE, steps |-> cleared,
              errors |-> <<[kind |-> built.kind, file |-> built.file,
                            first |-> built.first, second |-> built.second]>>]
        ELSE LET ins == InPairs(cleared)
                 apply(s) ==
                    LET deps  == ProducersOf(s.id, ins, built.map)
                        nexts == ConsumersOf(s.id, ins, built.map)
                    IN  [s EXCEPT
                           !.previous = IF deps = <<>> THEN @ ELSE Dedup(SortStrings(deps)),
                           !.next = IF nexts = <<>> THEN @ ELSE Dedup(SortStrings(nexts))]
             IN  [ok |-> TRUE, errors |-> <<>>,
                  steps |-> [i \in 1..Len(cleared) |-> apply(cleared[i])]]

RECURSIVE UnknownRefs(_, _, _)
\* the first reference of refs that is not a step id, as a one-element list
UnknownRefs(refs, ids, kind) ==
    IF refs = <<>> THEN <<>>
    ELSE IF Head(refs) \notin ids THEN <<[kind |-> kind, reference |-> Head(refs)]>>
    ELSE UnknownRefs(Tail(refs), ids, kind)

RECURSIVE ExplicitErrors(_, _)
ExplicitErrors(rest, ids) ==
    IF rest = <<>> THEN <<>>
    ELSE LET p == UnknownRefs(Head(rest).previous, ids, "UnknownDependency")
             n == UnknownRefs(Head(rest).next, ids, "UnknownDependent")
             here == IF p # <<>> THEN p ELSE n
         IN  IF here # <<>>
             THEN <<[kind |-> here[1].kind, step |-> Head(rest).id,
                     reference |-> here[1].reference]>>
             ELSE ExplicitErrors(Tail(rest), ids)

\* validate_explicit_dependencies: the first unknown reference is an error; a
\* next edge without its previous edge is only logged
validate_explicit_dependencies(steps) ==
    LET errs == ExplicitErrors(steps, StepIds(steps))
    IN  [ok |-> errs = <<>>, errors |-> errs, steps |-> steps]

has_explicit_deps(steps) ==
    \E i \in 1..Len(steps) : steps[i].previous # <<>> \/ steps[i].next # <<>>

\* populate_dependencies
populate_dependencies(steps) ==
    IF has_explicit_deps(steps)
    THEN validate_explicit_dependencies(steps)
    ELSE derive_dependencies_from_files(steps)

(***************************************************************************)
(* Wildcards (workflow/wildcards.rs).  A HashMap<String, Vec<String>> is a *)
(* function from the names it holds to their file lists.                   *)
(***************************************************************************)
\* str::contains(char)
Contains(s, c) == \E i \in 1..Len(s) : s[i] = c

\* the position of the last c in s, 0 when there is none
LastIndexOf(s, c) ==
    IF Contains(s, c)
    THEN CHOOSE i \in 1..Len(s) : s[i] = c /\ \A j \in (i + 1)..Len(s) : s[j] # c
    ELSE 0

\* Option::unwrap_or
UnwrapOr(opt, default) == IF opt = <<>> THEN default ELSE opt[1]

\* Path::file_name of a path that does not end in '/': the last component,
\* None when it is empty, "." or ".."
file_name(path) ==
    LET name == SubSeq(path, LastIndexOf(path, "/") + 1, Len(path))
    IN  IF name \in {<<>>, <<".">>, <<".", ".">>} THEN <<>> ELSE <<name>>

\* rsplit_file_at_dot of the standard library: (before, after) the last dot
SplitAtDot(name) ==
    LET k == LastIndexOf(name, ".")
    IN  IF name = <<".", ".">> THEN [before |-> <<name>>, after |-> <<>>]
        ELSE IF k = 0 THEN [before |-> <<>>, after |-> <<name>>]
        ELSE IF k = 1 THEN [before |-> <<name>>, after |-> <<>>]
        ELSE [before |-> <<SubSeq(name, 1, k - 1)>>,
              after |-> <<SubSeq(name, k + 1, Len(name))>>]

\* Path::extension: before.and(after)
extension(path) ==
    IF file_name(path) = <<>> THEN <<>>
    ELSE LET s == SplitAtDot(file_name(path)[1])
         IN  IF s.before = <<>> THEN <<>> ELSE s.after

\* Path::file_stem: before.or(after)
file_stem(path) ==
    IF file_name(path) = <<>> THEN <<>>
    ELSE LET s == SplitAtDot(file_name(path)[1])
         IN  IF s.before # <<>> THEN s.before ELSE s.after

\* lines 34-44: the extension the files that have one agree on
CommonExtension(files) ==
    LET with == SelectSeq(files, LAMBDA f : extension(f) # <<>>)
        extensions == [i \in 1..Len(with) |-> extension(with[i])[1]]
    IN  IF extensions # <<>>
           /\ \A i \in 1..(Len(extensions) - 1) : extensions[i] = extensions[i + 1]
        THEN <<extensions[1]>>
        ELSE <<>>

\* extract_wildcard_values
extract_wildcard_values(files) ==
    IF files = <<>> THEN <<>>
    ELSE [i \in 1..Len(files) |->
            IF CommonExtension(files) # <<>>
            THEN UnwrapOr(file_stem(files[i]), files[i])
            ELSE UnwrapOr(file_name(files[i]), files[i])]

\* has_wildcards
has_wildcards(text) == Contains(text, "{") /\ Contains(text, "}")

RECURSIVE NamesFrom(_, _, _, _, _)
\* the loop of extract_wildcard_names from position i on
NamesFrom(pattern, i, in_wildcard, current_name, names) ==
    IF i > Len(pattern) THEN names
    ELSE IF pattern[i] = "{" THEN NamesFrom(pattern, i + 1, TRUE, <<>>, names)
    ELSE IF pattern[i] = "}"
         THEN IF in_wildcard /\ current_name # <<>>
              THEN NamesFrom(pattern, i + 1, FALSE, <<>>, Append(names, current_name))
              ELSE NamesFrom(pattern, i + 1, FALSE, current_name, names)
    ELSE IF in_wildcard
         THEN NamesFrom(pattern, i + 1, in_wildcard, Append(current_name, pattern[i]), names)
    ELSE NamesFrom(pattern, i + 1, in_wildcard, current_name, names)

\* extract_wildcard_names
extract_wildcard_names(pattern) == NamesFrom(pattern, 1, FALSE, <<>>, <<>>)

RECURSIVE Replace(_, _, _)
\* str::replace: every non-overlapping occurrence of a non-empty pattern,
\* from the left
Replace(text, from, to) ==
    IF Len(text) < Len(from) THEN text
    ELSE IF SubSeq(text, 1, Len(from)) = from
         THEN to \o Replace(SubSeq(text, Len(from) + 1, Len(text)), from, to)
    ELSE <<Head(text)>> \o Replace(Tail(text), from, to)

\* substitute_wildcard
substitute_wildcard(text, wildcard_name, value) ==
    Replace(text, <<"{">> \o wildcard_name \o <<"}">>, value)

\* an id built with the value in front
WithValue_reversed(id, value) == value \o <<"_">> \o id

\* format!("{}_{}", id, value)
WithValue(id, value) == id \o <<"_">> \o value

\* lines 222-263: the concrete step of one wildcard value
ConcreteStep(step, wildcard_name, value) ==
    [step EXCEPT
       !.id = WithValue(step.id, value),
       !.input = [i \in 1..Len(step.input) |->
                    substitute_wildcard(step.input[i], wildcard_name, value)],
       !.output = [i \in 1..Len(step.output) |->
                     substitute_wildcard(step.output[i], wildcard_name, value)],
       !.command = substitute_wildcard(step.command, wildcard_name, value),
       !.previous = [i \in 1..Len(step.previous) |-> WithValue(step.previous[i], value)],
       !.next = [i \in 1..Len(step.next) |-> WithValue(step.next[i], value)]]

\* lines 182-188: the names in the step's inputs and outputs
WildcardNames(step) ==
    UNION {Range(extract_wildcard_names(step.input[i])) : i \in 1..Len(step.input)}
    \cup UNION {Range(extract_wildcard_names(step.output[i])) : i \in 1..Len(step.output)}

\* lines 171-179 and 190-193: the step is pushed as it is
KeptAsIs(step) ==
    \/ /\ \A i \in 1..Len(step.input) : ~has_wildcards(step.input[i])
       /\ \A i \in 1..Len(step.output) : ~has_wildcards(step.output[i])
    \/ WildcardNames(step) = {}

RECURSIVE ExpandFrom(_, _, _)
\* the loop of lines 169-267 over the remaining steps
ExpandFrom(rest, mapping, expanded_steps) ==
    IF rest = <<>> THEN [ok |-> TRUE, steps |-> expanded_steps, error |-> <<>>]
    ELSE LET step == Head(rest) IN
         IF KeptAsIs(step)
         THEN ExpandFrom(Tail(rest), mapping, Append(expanded_steps, step))
         ELSE IF Cardinality(WildcardNames(step)) > 1
              THEN [ok |-> FALSE, steps |-> <<>>,
                    error |-> <<[kind |-> "MultipleWildcards", step |-> step.id]>>]
         ELSE LET wildcard_name == CHOOSE n \in WildcardNames(step) : TRUE IN
              IF wildcard_name \notin DOMAIN mapping
              THEN [ok |-> FALSE, steps |-> <<>>,
                    error |-> <<[kind |-> "NoFilesForWildcard", step |-> step.id,
                                 wildcard |-> wildcard_name]>>]
              ELSE LET values == extract_wildcard_values(mapping[wildcard_name])
                   IN  ExpandFrom(Tail(rest), mapping,
                                  expanded_steps \o
                                  [i \in 1..Len(values) |->
                                     ConcreteStep(step, wildcard_name, values[i])])

\* an expansion that has emptied the step list when it fails
expand_workflow_wildcards_destructive(steps, mapping) ==
    LET r == ExpandFrom(steps, mapping, <<>>)
    IN  IF r.ok THEN [status |-> "ok", steps |-> r.steps, errors |-> <<>>]
        ELSE [status |-> "err", steps |-> r.steps, errors |-> r.error]

\* expand_workflow_wildcards: workflow.steps is assigned only on success
expand_workflow_wildcards(steps, mapping) ==
    LET r == ExpandFrom(steps, mapping, <<>>)
    IN  IF r.ok THEN [status |-> "ok", steps |-> r.steps, errors |-> <<>>]
        ELSE [status |-> "err", steps |-> steps, errors |-> r.error]

(***************************************************************************)
(* Validation and topological sort (workflow/validator.rs).                *)
(***************************************************************************)
\* a step check that stops at the first error
validate_step_first(step) ==
    IF Trim(step.id) = <<>> THEN <<[kind |-> "EmptyStepId"]>>
    ELSE IF Trim(step.tool) = <<>> THEN <<[kind |-> "EmptyTool", step |-> step.id]>>
    ELSE IF Trim(step.command) = <<>> THEN <<[kind |-> "EmptyCommand", step |-> step.id]>>
    ELSE <<>>

\* validate_step: an empty id ends the step's checks
validate_step(step) ==
    IF Trim(step.id) = <<>> THEN <<[kind |-> "EmptyStepId"]>>
    ELSE (IF Trim(step.tool) = <<>>
          THEN <<[kind |-> "EmptyTool", step |-> step.id]>> ELSE <<>>)
         \o (IF Trim(step.command) = <<>>
             THEN <<[kind |-> "EmptyCommand", step |-> step.id]>> ELSE <<>>)

RECURSIVE InvalidRefs(_, _, _)
InvalidRefs(stepId, refs, ids) ==
    IF refs = <<>> THEN <<>>
    ELSE (IF Head(refs) \notin ids
          THEN <<[kind |-> "InvalidReference", step |-> stepId, reference |-> Head(refs)]>>
          ELSE <<>>)
         \o InvalidRefs(stepId, Tail(refs), ids)

RECURSIVE CollectErrors(_, _)
\* the loop of lines 128-150: every step's field errors and dangling references
CollectErrors(rest, ids) ==
    IF rest = <<>> THEN <<>>
    ELSE validate_step(Head(rest))
         \o InvalidRefs(Head(rest).id, Head(rest).previous, ids)
         \o InvalidRefs(Head(rest).id, Head(rest).next, ids)
         \o CollectErrors(Tail(rest), ids)

\* the first step whose id was already seen (line 121), 0 if there is none
FirstDuplicate(steps) ==
    LET dups == {i \in 1..Len(steps) : \E j \in 1..(i - 1) : steps[j].id = steps[i].id}
    IN  IF dups = {} THEN 0 ELSE CHOOSE i \in dups : \A k \in dups : i <= k

\* a HashMap filled by inserting every step in order: the last step of an id wins
LastStep(steps, id) ==
    steps[CHOOSE i \in 1..Len(steps) :
            /\ steps[i].id = id
            /\ \A j \in (i + 1)..Len(steps) : steps[j].id # id]

\* in_degree (lines 174-177): previous.len() of each id
InDegree(steps) == [id \in StepIds(steps) |-> Len(LastStep(steps, id).previous)]

\* a queue seeded with the roots in reverse list order
RootQueue_reversed(steps) ==
    LET roots == SelectSeq(steps, LAMBDA s : s.previous = <<>>)
    IN  [i \in 1..Len(roots) |-> roots[Len(roots) + 1 - i].id]

\* the initial queue (lines 180-185): the steps without previous, in list order
RootQueue(steps) ==
    LET roots == SelectSeq(steps, LAMBDA s : s.previous = <<>>)
    IN  [i \in 1..Len(roots) |-> roots[i].id]

\* successors of a dequeued id (lines 193-198): the next list of its first step
Successors(steps, id) ==
    IF id \in StepIds(steps) THEN FindStep(steps, id).next ELSE <<>>

\* `*degree -= 1` on a usize.  A counter below zero stands for the wrapped value
\* 2^64 + d, which the at most Len(next) further decrements never bring to zero.
DecrementDegree(d) == d - 1

RECURSIVE Relax(_, _, _, _)
\* the loop of lines 200-207 over the successors of one dequeued step.  With
\* overflow checks (a debug build) decrementing a zero counter panics.
Relax(succs, deg, queue, checks) ==
    IF succs = <<>> THEN [panic |-> FALSE, deg |-> deg, queue |-> queue]
    ELSE LET s == Head(succs) IN
         IF s \notin DOMAIN deg THEN Relax(Tail(succs), deg, queue, checks)
         ELSE IF deg[s] = 0 /\ checks
              THEN [panic |-> TRUE, deg |-> deg, queue |-> queue]
         ELSE LET d == DecrementDegree(deg[s])
              IN  Relax(Tail(succs), [deg EXCEPT ![s] = d],
                        IF d = 0 THEN Append(queue, s) ELSE queue, checks)

RECURSIVE Kahn(_, _, _, _, _)
\* the while loop of lines 189-208
Kahn(steps, queue, deg, sorted, checks) ==
    IF queue = <<>> THEN [panic |-> FALSE, sorted |-> sorted]
    ELSE LET r == Relax(Successors(steps, Head(queue)), deg, Tail(queue), checks)
         IN  IF r.panic THEN [panic |-> TRUE, sorted |-> sorted]
             ELSE Kahn(steps, r.queue, r.deg, Append(sorted, Head(queue)), checks)

\* the order Kahn's loop produces
SortedOrder(steps, checks) ==
    Kahn(steps, RootQueue(steps), InDegree(steps), <<>>, checks)

\* the cycle test of line 211
CycleDetected(sorted, steps) == Len(sorted) # Len(steps)

\* a sort that reorders the steps before it looks for a cycle
topological_sort_eager(steps, checks) ==
    LET k == SortedOrder(steps, checks)
        reordered == [i \in 1..Len(k.sorted) |-> LastStep(steps, k.sorted[i])]
    IN  IF k.panic THEN [status |-> "panic", errors |-> <<>>, steps |-> steps]
        ELSE IF CycleDetected(k.sorted, steps)
             THEN [status |-> "err", errors |-> <<[kind |-> "CyclicDependency"]>>,
                   steps |-> reordered]
        ELSE [status |-> "ok", errors |-> <<>>, steps |-> reordered]

\* topological_sort: status "ok" with the reordered steps, "err" with the
\* steps untouched, or "panic" when the in-degree subtraction overflows
topological_sort(steps, checks) ==
    LET k == SortedOrder(steps, checks)
    IN  IF k.panic THEN [status |-> "panic", errors |-> <<>>, steps |-> steps]
        ELSE IF CycleDetected(k.sorted, steps)
             THEN [status |-> "err", errors |-> <<[kind |-> "CyclicDependency"]>>,
                   steps |-> steps]
        ELSE [status |-> "ok", errors |-> <<>>,
              steps |-> [i \in 1..Len(k.sorted) |-> LastStep(steps, k.sorted[i])]]

\* validate_workflow.  The tools list is refreshed before the duplicate check.
validate_workflow(steps, tools, checks) ==
    IF steps = <<>>
    THEN [status |-> "err", errors |-> <<[kind |-> "EmptyWorkflow"]>>,
          steps |-> steps, tools |-> tools]
    ELSE LET fresh == RefreshTools(steps)
             dup   == FirstDuplicate(steps)
             errs  == CollectErrors(steps, StepIds(steps))
         IN  IF dup # 0
             THEN [status |-> "err",
                   errors |-> <<[kind |-> "DuplicateStepId", step |-> steps[dup].id]>>,
                   steps |-> steps, tools |-> fresh]
             ELSE IF errs # <<>>
             THEN [status |-> "err", errors |-> errs, steps |-> steps, tools |-> fresh]
             ELSE LET t == topological_sort(steps, checks)
                  IN  [status |-> t.status, errors |-> t.errors, steps |-> t.steps,
                       tools |-> fresh]

(***************************************************************************)
(* Persisted run state (workflow/state.rs).  An Option is a sequence of    *)
(* length 0 (None) or 1 (Some).                                            *)
(***************************************************************************)
\* WorkflowState::new
StateNew == [completed_steps |-> {}, failed_step |-> <<>>]

\* a completion that leaves the failed step in place
state_mark_completed_keeps_failure(st, id) ==
    [st EXCEPT !.completed_steps = @ \cup {id}]

\* WorkflowState::mark_completed
state_mark_completed(st, id) ==
    [st EXCEPT !.completed_steps = @ \cup {id}, !.failed_step = <<>>]

\* a failure that is also recorded as a completion
state_mark_failed_as_completed(st, id) ==
    [st EXCEPT !.failed_step = <<id>>, !.completed_steps = @ \cup {id}]

\* WorkflowState::mark_failed
state_mark_failed(st, id) == [st EXCEPT !.failed_step = <<id>>]

\* WorkflowState::clear
state_clear(st) == [st EXCEPT !.completed_steps = {}, !.failed_step = <<>>]

\* WorkflowState::is_resume
is_resume(st) == st.completed_steps # {} \/ st.failed_step # <<>>

\* the state file: absent, unreadable, or holding a serialized WorkflowState
LedgerAbsent == [kind |-> "absent"]
LedgerCorrupt == [kind |-> "corrupt"]
LedgerOf(st) == [kind |-> "ok", state |-> st]

\* a load that reads a truncated file as a state with step a completed
LoadOrNew_lenient(disk) ==
    IF disk.kind = "ok" THEN disk.state
    ELSE IF disk.kind = "corrupt" THEN state_mark_completed(StateNew, <<"a">>)
    ELSE StateNew

\* WorkflowState::load(..).unwrap_or_else(|_| WorkflowState::new(..))
LoadOrNew(disk) == IF disk.kind = "ok" THEN disk.state ELSE StateNew

\* what WorkflowState::save can leave on disk: the new state (Ok), the old
\* file (create_dir_all or File::create failed), or a truncated file (the
\* write failed after the file was opened)
SaveOutcomes(disk, st) ==
    {[ok |-> TRUE, disk |-> LedgerOf(st)],
     [ok |-> FALSE, disk |-> disk],
     [ok |-> FALSE, disk |-> LedgerCorrupt]}

(***************************************************************************)
(* Execution planner (workflow/planner.rs).                                *)
(***************************************************************************)
\* StepMetrics::new
MetricsNew ==
    [status |-> "Pending", error |-> <<>>,
     start_time |-> FALSE, end_time |-> FALSE, duration_ms |-> FALSE]

\* ExecutionPlanner::new (without wildcard files: the workflow is taken as is)
PlannerNew(steps, dry, max_jobs, cpus) ==
    [steps |-> steps, dry_run |-> dry,
     completed_steps |-> {}, running_steps |-> {},
     max_parallel_jobs |-> max_jobs,
     step_metrics |-> [id \in StepIds(steps) |-> MetricsNew],
     current_threads_used |-> 0, max_system_threads |-> cpus]

\* the membership test of line 144
KnownStep(steps, id) == \E i \in 1..Len(steps) : steps[i].id = id

\* a resume that forgets the ledger
from_state_fresh(steps, st, dry, max_jobs, cpus) == PlannerNew(steps, dry, max_jobs, cpus)

\* a resume that reports the steps of the ledger as Completed
from_state_completed(steps, st, dry, max_jobs, cpus) ==
    LET p    == PlannerNew(steps, dry, max_jobs, cpus)
        seen == {id \in st.completed_steps : KnownStep(p.steps, id)}
    IN  [p EXCEPT
           !.completed_steps = @ \cup seen,
           !.step_metrics = [id \in DOMAIN @ |->
                               IF id \in seen THEN [@[id] EXCEPT !.status = "Completed"]
                               ELSE @[id]]]

\* ExecutionPlanner::from_state
from_state(steps, st, dry, max_jobs, cpus) ==
    LET p    == PlannerNew(steps, dry, max_jobs, cpus)
        seen == {id \in st.completed_steps : KnownStep(p.steps, id)}
    IN  [p EXCEPT
           !.completed_steps = @ \cup seen,
           !.step_metrics = [id \in DOMAIN @ |->
                               IF id \in seen THEN [@[id] EXCEPT !.status = "Skipped"]
                               ELSE @[id]]]

\* a dependency test that looks at the first dependency only
deps_complete_first(p, step) ==
    step.previous = <<>> \/ step.previous[1] \in p.completed_steps

\* a dependency test that looks at no dependency
deps_complete_ignored(p, step) == TRUE

\* the dependency test of lines 173-177
deps_complete(p, step) ==
    step.previous = <<>>
    \/ \A i \in 1..Len(step.previous) : step.previous[i] \in p.completed_steps

\* a job limit that never stops the scan
JobLimitReached_never(p, ready) == FALSE

\* the job limit of line 184
JobLimitReached(p, ready) == Len(ready) >= p.max_parallel_jobs

\* a thread limit that forgets the threads in use
OverThreadLimit_fresh(p, allocated, step) ==
    allocated + step.threads > p.max_system_threads

\* the thread limit of lines 190-191
OverThreadLimit(p, allocated, step) ==
    p.current_threads_used + allocated + step.threads > p.max_system_threads

RECURSIVE ReadyScan(_, _, _, _)
\* the loop of lines 166-204 from step i on
ReadyScan(p, i, ready, allocated) ==
    IF i > Len(p.steps) THEN ready
    ELSE LET step == p.steps[i] IN
         IF step.id \in p.completed_steps \/ step.id \in p.running_steps
         THEN ReadyScan(p, i + 1, ready, allocated)
         ELSE IF ~deps_complete(p, step) THEN ReadyScan(p, i + 1, ready, allocated)
         ELSE IF JobLimitReached(p, ready) THEN ready
         ELSE IF OverThreadLimit(p, allocated, step)
              THEN ReadyScan(p, i + 1, ready, allocated)
         ELSE ReadyScan(p, i + 1, Append(ready, step), allocated + step.threads)

\* ExecutionPlanner::get_ready_steps
get_ready_steps(p) == ReadyScan(p, 1, <<>>, 0)

\* usize::saturating_sub
saturating_sub(a, b) == IF a >= b THEN a - b ELSE 0

\* the threads of the first step with this id, 0 when there is none (the
\* `if let Some(step)` of lines 214, 234 and 257)
ThreadsOf(p, id) == IF KnownStep(p.steps, id) THEN FindStep(p.steps, id).threads ELSE 0

\* a mark that leaves the step out of the running set
mark_step_running_untracked(p, id) ==
    [p EXCEPT
       !.current_threads_used = @ + ThreadsOf(p, id),
       !.step_metrics = [m \in DOMAIN @ |->
                           IF m = id THEN [@[m] EXCEPT !.start_time = TRUE,
                                                       !.status = "Running"]
                           ELSE @[m]]]

\* ExecutionPlanner::mark_step_running
mark_step_running(p, id) ==
    [p EXCEPT
       !.running_steps = @ \cup {id},
       !.current_threads_used = @ + ThreadsOf(p, id),
       !.step_metrics = [m \in DOMAIN @ |->
                           IF m = id THEN [@[m] EXCEPT !.start_time = TRUE,
                                                       !.status = "Running"]
                           ELSE @[m]]]

\* a completion that does not release the threads of the step
mark_step_completed_holding(p, id) ==
    [p EXCEPT
       !.running_steps = @ \ {id},
       !.completed_steps = @ \cup {id},
       !.step_metrics = [m \in DOMAIN @ |->
                           IF m = id THEN [@[m] EXCEPT !.end_time = TRUE,
                                                       !.status = "Completed"]
                           ELSE @[m]]]

\* ExecutionPlanner::mark_step_completed
mark_step_completed(p, id) ==
    [p EXCEPT
       !.running_steps = @ \ {id},
       !.completed_steps = @ \cup {id},
       !.current_threads_used = saturating_sub(@, ThreadsOf(p, id)),
       !.step_metrics = [m \in DOMAIN @ |->
                           IF m = id THEN [@[m] EXCEPT !.end_time = TRUE,
                                                       !.duration_ms = @ \/ p.step_metrics[m].start_time,
                                                       !.status = "Completed"]
                           ELSE @[m]]]

\* a failure that is counted among the completed steps
mark_step_failed_counted(p, id, error) ==
    [p EXCEPT
       !.running_steps = @ \ {id},
       !.completed_steps = @ \cup {id},
       !.current_threads_used = saturating_sub(@, ThreadsOf(p, id)),
       !.step_metrics = [m \in DOMAIN @ |->
                           IF m = id THEN [@[m] EXCEPT !.end_time = TRUE,
                                                       !.status = "Failed",
                                                       !.error = <<error>>]
                           ELSE @[m]]]

\* ExecutionPlanner::mark_step_failed
mark_step_failed(p, id, error) ==
    [p EXCEPT
       !.running_steps = @ \ {id},
       !.current_threads_used = saturating_sub(@, ThreadsOf(p, id)),
       !.step_metrics = [m \in DOMAIN @ |->
                           IF m = id THEN [@[m] EXCEPT !.end_time = TRUE,
                                                       !.duration_ms = @ \/ p.step_metrics[m].start_time,
                                                       !.status = "Failed",
                                                       !.error = <<error>>]
                           ELSE @[m]]]

\* a work test that is off by one step
has_work_remaining_but_one(p) == Cardinality(p.completed_steps) + 1 < Len(p.steps)

\* ExecutionPlanner::has_work_remaining
has_work_remaining(p) == Cardinality(p.completed_steps) < Len(p.steps)

\* ExecutionPlanner::progress
progress(p) == <<Cardinality(p.completed_steps), Len(p.steps)>>

(***************************************************************************)
(* The workflows that are loaded.                                          *)
(***************************************************************************)
A == <<"a">>
B == <<"b">>
C == <<"c">>
D == <<"d">>
R == <<"r">>
W == <<"w">>
X == <<"x">>
Y == <<"y">>
Z == <<"z">>
\* the tool and the command of the generated steps ("bc" is a system tool)
Bc == <<"b", "c">>

Ids == <<A, B, C, D, R>>

RECURSIVE IncreasingSeqs(_, _)
\* the strictly increasing sequences of exactly k numbers of 1..m
IncreasingSeqs(m, k) ==
    IF k = 0 THEN {<<>>}
    ELSE UNION {{Append(s, x) : x \in ((IF s = <<>> THEN 0 ELSE s[Len(s)]) + 1)..m} :
                  s \in IncreasingSeqs(m, k - 1)}

\* The list entries a workflow of n steps can have are numbered 1..GraphSlots(n):
\* step i lists step j (j # i) as next or as previous; a step listing itself
\* is left to SelfLoops.
GraphSlots(n) == 2 * n * (n - 1)

SlotStep(n, e) == ((e - 1) \div (2 * (n - 1))) + 1
SlotKind(n, e) ==
    IF ((e - 1) % (2 * (n - 1))) < n - 1 THEN "next" ELSE "previous"
SlotTarget(n, e) ==
    LET t == ((e - 1) % (n - 1)) + 1
    IN  IF t < SlotStep(n, e) THEN t ELSE t + 1

\* the ids step i lists under `kind`, from the chosen slots, in slot order
IdsAt(n, chosen, i, kind) ==
    LET mine == SelectSeq(chosen, LAMBDA e : SlotStep(n, e) = i /\ SlotKind(n, e) = kind)
    IN  [x \in 1..Len(mine) |-> Ids[SlotTarget(n, mine[x])]]

\* the workflow of n steps whose previous and next lists are the chosen slots
GraphWorkflow(n, chosen) ==
    [i \in 1..n |->
        [StepNew(Ids[i], Bc, Bc) EXCEPT
            !.previous = IdsAt(n, chosen, i, "previous"),
            !.next = IdsAt(n, chosen, i, "next")]]

\* steps is a workflow of 1..MaxGraphSteps steps with at most MaxGraphEdges
\* list entries
IsGraphWorkflow(w) ==
    \E n \in 1..MaxGraphSteps : \E k \in 0..MaxGraphEdges :
        \E chosen \in IncreasingSeqs(GraphSlots(n), k) : w = GraphWorkflow(n, chosen)

\* workflows in which a step lists itself
SelfLoops ==
    {<<depends_on(StepNew(A, Bc, Bc), A)>>,
     <<push_next(depends_on(StepNew(A, Bc, Bc), A), A)>>,
     <<push_next(StepNew(A, Bc, Bc), A)>>,
     <<push_next(StepNew(A, Bc, Bc), B), depends_on(StepNew(B, Bc, Bc), B)>>,
     <<push_next(StepNew(A, Bc, Bc), B),
       depends_on(depends_on(StepNew(B, Bc, Bc), A), B)>>}

\* the output and input declarations of the file-derived workflows
OutputChoices ==
    {<<>>, <<X>>, <<Y>>, <<<<"x", ",", " ", "y">>>>, <<<<" ", "x", " ">>>>,
     <<<<",">>>>, <<Z, X>>}
InputChoices == {<<>>, <<X>>, <<<<"y", ",", "x">>>>, <<Z>>, <<<<"x", ",">>>>}

FileStep(i, io) ==
    [StepNew(Ids[i], Bc, Bc) EXCEPT !.input = io[1], !.output = io[2]]

\* w is a workflow of 1..MaxFileSteps steps without edges, with declared files
IsFileWorkflow(w) ==
    \E n \in 1..MaxFileSteps : \E f \in [1..n -> InputChoices \X OutputChoices] :
        w = [i \in 1..n |-> FileStep(i, f[i])]

\* a -> {b, c} -> d, every step declaring one output
Diamond ==
    <<with_output(push_next(push_next(StepNew(A, Bc, Bc), B), C), W),
      with_output(push_next(depends_on(StepNew(B, Bc, Bc), A), D), X),
      with_output(push_next(depends_on(StepNew(C, Bc, Bc), A), D), Y),
      with_output(depends_on(depends_on(StepNew(D, Bc, Bc), B), C), Z)>>

\* a chain derived from files; listed out of order; the last step declares no output
FileChain ==
    <<with_input(StepNew(C, Bc, Bc), Y),
      with_output(StepNew(A, Bc, Bc), <<"x", ",", " ", "w">>),
      with_output(with_input(StepNew(B, Bc, Bc), X), Y)>>

\* three independent steps, the second one needing two threads
Independent ==
    <<with_output(StepNew(A, Bc, Bc), X),
      with_threads(with_output(StepNew(B, Bc, Bc), Y), 2),
      StepNew(C, Bc, Bc)>>

\* the two-step mutual dependency
Mutual ==
    <<push_next(depends_on(StepNew(A, Bc, Bc), B), B),
      push_next(depends_on(StepNew(B, Bc, Bc), A), A)>>

\* a and b depend on each other; r lists both as next without being their previous
HiddenCycle ==
    <<push_next(push_next(StepNew(R, Bc, Bc), A), B),
      with_output(depends_on(StepNew(A, Bc, Bc), B), X),
      depends_on(StepNew(B, Bc, Bc), A)>>

\* two steps declaring the same output, no edges
SameOutput ==
    <<with_output(StepNew(A, Bc, Bc), X),
      with_output(StepNew(B, Bc, Bc), <<"y", ",", "x">>)>>

\* the workflows the engine is run on
EngineWorkflows == {Diamond, FileChain, Independent, Mutual, HiddenCycle, SameOutput}

(***************************************************************************)
(* State.                                                                  *)
(***************************************************************************)
VARIABLES
    steps,          \* workflow.steps
    tools,          \* workflow.tools
    loaded,         \* "raw", or how load_workflow ended: "ok", "err", "panic"
    load_errors,    \* the errors load_workflow returned
    max_parallel,   \* Engine.max_parallel
    dry_run,        \* Engine.dry_run
    pause_flag_path,\* whether Engine.pause_flag_path is Some
    cpus,           \* what num_cpus::get() returns on this machine
    wildcard_files, \* Engine.wildcard_files, the map given to expand_workflow_wildcards
    workflow_path,  \* Engine.workflow_path: the workflow file the process was started with
    state_dir,      \* the state files that runs of several workflow files leave in .rustrunner/
    pause_marker,   \* whether the pause file exists
    files,          \* the paths that exist in the working directory
    disk,           \* the state file .rustrunner/<stem>.state
    pc,             \* where the coordinator (Engine::run) is
    last_run,       \* how the latest finished invocation of Engine::run ended
    resumed,        \* history: what the current invocation of run started from
    state,          \* run's `state`: the in-memory WorkflowState
    planner,        \* run's `planner`
    running_count,  \* run's `running_count`
    ready_steps,    \* what is left of the `for step in ready_steps` loop
    workers,        \* the worker threads that have not reported yet
    channel,        \* the messages sent on tx and not yet received on rx
    dispatched,     \* history: the steps marked running in the current run
    succeeded       \* history: the steps whose Ok result the current run processed

vars == <<steps, tools, loaded, load_errors, max_parallel, dry_run, pause_flag_path,
          cpus, wildcard_files, workflow_path, state_dir, pause_marker, files, disk, pc, last_run, resumed, state, planner, running_count,
          ready_steps, workers, channel, dispatched, succeeded>>

workflow_vars == <<steps, tools, loaded, load_errors>>
config_vars == <<max_parallel, dry_run, pause_flag_path, cpus, wildcard_files,
                 workflow_path>>
run_vars == <<pc, last_run, resumed, state, planner, running_count, ready_steps, channel,
              dispatched, succeeded>>

\* DEFAULT_WORKFLOW of main.rs, shortened: the workflow file of the runs that
\* are about one workflow
DefaultWorkflow == <<"p", ".", "y">>

\* Engine::run has not returned yet
NoRun == [kind |-> "None"]

\* what an invocation of run starts from: how the invocation before it ended
\* and whether Step::outputs_exist held of every step at that moment
StartedFrom(result, wf, existing) ==
    [after |-> result.kind,
     outputs_exist |-> \A i \in 1..Len(wf) : OutputsExist(wf[i], existing)]

NoResume == [after |-> "None", outputs_exist |-> FALSE]

\* no planner has been built
NoPlanner == PlannerNew(<<>>, FALSE, 0, 0)

InitEngine ==
    /\ wildcard_files = <<>>
    /\ workflow_path = DefaultWorkflow
    /\ state_dir = <<>>
    /\ tools = <<>>
    /\ loaded = "raw"
    /\ load_errors = <<>>
    /\ pause_marker = FALSE
    /\ files = {}
    /\ disk = LedgerAbsent
    /\ pc = "idle"
    /\ last_run = NoRun
    /\ resumed = NoResume
    /\ state = StateNew
    /\ planner = NoPlanner
    /\ running_count = 0
    /\ ready_steps = <<>>
    /\ workers = {}
    /\ channel = <<>>
    /\ dispatched = {}
    /\ succeeded = {}

\* the workflows that are also run with a pause file configured
PauseWorkflows == {FileChain, Independent}

Init ==
    /\ steps \in EngineWorkflows
    /\ max_parallel \in 0..MaxParallel
    /\ dry_run \in BOOLEAN
    /\ pause_flag_path \in BOOLEAN
    /\ pause_flag_path => steps \in PauseWorkflows
    /\ cpus \in 1..MaxCpus
    /\ InitEngine

\* the initial states of the specification of loading alone
InitLoad ==
    /\ \/ IsGraphWorkflow(steps)
       \/ steps \in SelfLoops
       \/ IsFileWorkflow(steps)
    /\ max_parallel = 1
    /\ dry_run = FALSE
    /\ pause_flag_path = FALSE
    /\ cpus = 1
    /\ InitEngine

(***************************************************************************)
(* load_workflow (workflow/parser.rs): populate the dependencies, expand   *)
(* wildcards (none of the workflows here has a wildcard, so that step      *)
(* returns at line 31), validate and sort.                                 *)
(***************************************************************************)
load_workflow(raw, raw_tools, checks) ==
    LET p == populate_dependencies(raw)
    IN  IF ~p.ok
        THEN [status |-> "err", errors |-> p.errors, steps |-> p.steps,
              tools |-> raw_tools]
        ELSE validate_workflow(p.steps, raw_tools, checks)

\* The build decides whether the in-degree subtraction is checked.
LoadWorkflow ==
    /\ loaded = "raw"
    /\ \E checks \in BOOLEAN :
          LET r == load_workflow(steps, tools, checks)
          IN  /\ steps' = r.steps
              /\ tools' = r.tools
              /\ loaded' = r.status
              /\ load_errors' = r.errors
    /\ UNCHANGED <<config_vars, state_dir, pause_marker, files, disk, run_vars, workers>>

NextLoad == LoadWorkflow

SpecLoad == InitLoad /\ [][NextLoad]_vars

(***************************************************************************)
(* Engine::run (execution/engine.rs).  The coordinator is at                *)
(*   "idle"      no run in progress                                        *)
(*   "schedule"  the head of `while running_count < self.max_parallel`     *)
(*   "for"       the head of `for step in ready_steps`                     *)
(*   "paused"    inside check_pause_flag, the marker having been seen      *)
(*   "spawn"     after check_pause_flag, before mark_step_running          *)
(*   "check"     line 272, after the scheduling loop                       *)
(***************************************************************************)
\* a resume that trusts the ledger without looking at the outputs
VerifyCompleted_trusting(st, wf, existing) == st

\* lines 144-162: the completed ids whose outputs are gone are dropped
VerifyCompleted(st, wf, existing) ==
    LET rerun == {wf[i].id : i \in {j \in 1..Len(wf) :
                     /\ wf[j].id \in st.completed_steps
                     /\ ~OutputsExist(wf[j], existing)}}
    IN  [st EXCEPT !.completed_steps = @ \ rerun]

\* lines 173-188
CreatePlanner(st, wf, dry, max_jobs, ncpu) ==
    IF is_resume(st) THEN from_state(wf, st, dry, max_jobs, ncpu)
    ELSE PlannerNew(wf, dry, max_jobs, ncpu)

\* run returns: its locals (state, planner, rx, the counters) are dropped
Return(result) ==
    /\ pc' = "idle"
    /\ last_run' = result
    /\ state' = StateNew
    /\ planner' = NoPlanner
    /\ running_count' = 0
    /\ ready_steps' = <<>>
    /\ channel' = <<>>
    /\ dispatched' = {}
    /\ succeeded' = {}

\* lines 123-212: setup_environments changes nothing that is modelled here and
\* returns Ok; the state is loaded and verified, the planner and the channel
\* are created.  main.rs runs the engine once per process, so the threads of
\* the previous process are gone.
RunStart ==
    /\ pc = "idle"
    /\ loaded = "ok"
    /\ workers = {}
    /\ LET st == VerifyCompleted(LoadOrNew(disk), steps, files)
       IN  /\ state' = st
           /\ planner' = CreatePlanner(st, steps, dry_run, max_parallel, cpus)
    /\ running_count' = 0
    /\ ready_steps' = <<>>
    /\ channel' = <<>>
    /\ dispatched' = {}
    /\ succeeded' = {}
    /\ resumed' = StartedFrom(last_run, steps, files)
    /\ pc' = "schedule"
    /\ UNCHANGED <<workflow_vars, config_vars, state_dir, pause_marker, files, disk, last_run, workers>>

\* a capacity test that lets one job too many in
HasCapacity_off_by_one == running_count <= max_parallel

\* the capacity test of line 217 (and of line 224)
HasCapacity == running_count < max_parallel

\* lines 217-221: the while condition, get_ready_steps and the empty test
Schedule ==
    /\ pc = "schedule"
    /\ IF HasCapacity
       THEN LET ready == get_ready_steps(planner)
            IN  IF ready = <<>>
                THEN pc' = "check" /\ ready_steps' = <<>>
                ELSE pc' = "for" /\ ready_steps' = ready
       ELSE pc' = "check" /\ ready_steps' = <<>>
    /\ UNCHANGED <<workflow_vars, config_vars, state_dir, pause_marker, files, disk, last_run, resumed, state,
                   planner, running_count, workers, channel, dispatched, succeeded>>

\* lines 223-231: the loop head, the break and the first look at the pause file
ForNext ==
    /\ pc = "for"
    /\ IF ready_steps = <<>> \/ ~HasCapacity
       THEN pc' = "schedule" /\ ready_steps' = <<>>
       ELSE /\ pc' = IF pause_flag_path /\ pause_marker THEN "paused" ELSE "spawn"
            /\ ready_steps' = ready_steps
    /\ UNCHANGED <<workflow_vars, config_vars, state_dir, pause_marker, files, disk, last_run, resumed, state,
                   planner, running_count, workers, channel, dispatched, succeeded>>

\* a wait that ends whether the marker is there or not
PauseResume_impatient ==
    /\ pc = "paused"
    /\ pc' = "spawn"
    /\ UNCHANGED <<workflow_vars, config_vars, state_dir, pause_marker, files, disk, last_run, resumed, state,
                   planner, running_count, ready_steps, workers, channel, dispatched,
                   succeeded>>

\* check_pause_flag, lines 335-337: the poll that finds the marker gone (a poll
\* that still finds it changes nothing)
PauseResume ==
    /\ pc = "paused"
    /\ ~pause_marker
    /\ pc' = "spawn"
    /\ UNCHANGED <<workflow_vars, config_vars, state_dir, pause_marker, files, disk, last_run, resumed, state,
                   planner, running_count, ready_steps, workers, channel, dispatched,
                   succeeded>>

\* lines 233-267: the step is marked running; a dry run completes it at once,
\* otherwise a worker thread is spawned for it
Dispatch ==
    /\ pc = "spawn"
    /\ LET step == Head(ready_steps)
           p    == mark_step_running(planner, step.id)
       IN  /\ dispatched' = dispatched \cup {step.id}
           /\ IF dry_run
              THEN /\ planner' = mark_step_completed(p, step.id)
                   /\ UNCHANGED <<workers, running_count>>
              ELSE /\ planner' = p
                   /\ workers' = workers \cup {[id |-> step.id, orphan |-> FALSE]}
                   /\ running_count' = running_count + 1
    /\ ready_steps' = Tail(ready_steps)
    /\ pc' = "for"
    /\ UNCHANGED <<workflow_vars, config_vars, state_dir, pause_marker, files, disk, last_run, resumed, state,
                   channel, succeeded>>

\* line 272-274, then lines 311-325: the run returns Ok
Finish ==
    /\ pc = "check"
    /\ running_count = 0 /\ ~has_work_remaining(planner)
    /\ Return([kind |-> "Ok"])
    /\ UNCHANGED <<workflow_vars, config_vars, state_dir, pause_marker, files, disk, resumed, workers>>

\* lines 277-307 with nothing to wait for: the loop starts over
Spin ==
    /\ pc = "check"
    /\ ~(running_count = 0 /\ ~has_work_remaining(planner))
    /\ ~(running_count > 0 /\ ~dry_run)
    /\ pc' = "schedule"
    /\ UNCHANGED <<workflow_vars, config_vars, state_dir, pause_marker, files, disk, last_run, resumed, state,
                   planner, running_count, ready_steps, workers, channel, dispatched,
                   succeeded>>

\* a save that reports success and writes nothing
SaveState_unwritten(st) == {[ok |-> TRUE, disk |-> disk]}

\* state.save() as called from run: what it can leave on disk
SaveState(st) == SaveOutcomes(disk, st)

\* a return that stops the workers still running
Orphaned_cancelled(ws) == {}

\* run has returned and dropped rx: the workers still running cannot report
Orphaned(ws) == {[w EXCEPT !.orphan = TRUE] : w \in ws}

\* lines 285-291: an Ok result
ReceiveOk(msg) ==
    LET st == state_mark_completed(state, msg.id)
    IN  \E out \in SaveState(st) :
            /\ disk' = out.disk
            /\ IF out.ok
               THEN /\ planner' = mark_step_completed(planner, msg.id)
                    /\ state' = st
                    /\ succeeded' = succeeded \cup {msg.id}
                    /\ channel' = Tail(channel)
                    /\ running_count' = running_count - 1
                    /\ pc' = "schedule"
                    /\ UNCHANGED <<last_run, ready_steps, dispatched, workers>>
               ELSE /\ Return([kind |-> "SaveFailed"])
                    /\ workers' = Orphaned(workers)

\* an Err result that is recorded and after which the loop goes on
ReceiveErr_goes_on(msg) ==
    LET st == state_mark_failed(state, msg.id)
    IN  \E out \in SaveState(st) :
            /\ disk' = out.disk
            /\ planner' = mark_step_failed(planner, msg.id, msg.error)
            /\ state' = st
            /\ channel' = Tail(channel)
            /\ running_count' = running_count - 1
            /\ pc' = "schedule"
            /\ UNCHANGED <<last_run, ready_steps, dispatched, succeeded, workers>>

\* lines 292-305: an Err result
ReceiveErr(msg) ==
    LET st == state_mark_failed(state, msg.id)
    IN  \E out \in SaveState(st) :
            /\ disk' = out.disk
            /\ Return(IF out.ok
                      THEN [kind |-> "StepFailed", step |-> msg.id, message |-> msg.error]
                      ELSE [kind |-> "SaveFailed"])
            /\ workers' = Orphaned(workers)

\* lines 277-307: rx.recv() returns the oldest message
Receive ==
    /\ pc = "check"
    /\ ~(running_count = 0 /\ ~has_work_remaining(planner))
    /\ running_count > 0 /\ ~dry_run
    /\ channel # <<>>
    /\ LET msg == Head(channel)
       IN  IF msg.ok THEN ReceiveOk(msg) ELSE ReceiveErr(msg)
    /\ UNCHANGED <<workflow_vars, config_vars, state_dir, pause_marker, files, resumed>>

(***************************************************************************)
(* Worker threads (lines 258-265) and the environment.                     *)
(***************************************************************************)
\* what execute_step can return for a step
ErrorMessages == {"exit status"}

DeclaredOutputs(step) == Range(NonEmptyOnly(FlatFiles(step.output)))

\* whether the receiving end of the worker's channel is still there
ReceiverAlive(w) == ~w.orphan

\* a worker that sends its result twice
Send_twice(w, msg) ==
    IF ReceiverAlive(w) THEN channel' = channel \o <<msg, msg>> ELSE channel' = channel

\* the worker's tx.send: appended to the channel, or an error that is logged
Send(w, msg) ==
    IF ReceiverAlive(w) THEN channel' = Append(channel, msg) ELSE channel' = channel

\* the command exits with status 0, having written its outputs or not
WorkerSucceeds ==
    \E w \in workers : \E wrote \in BOOLEAN :
        /\ workers' = workers \ {w}
        /\ files' = IF wrote THEN files \cup DeclaredOutputs(FindStep(steps, w.id))
                    ELSE files
        /\ Send(w, [id |-> w.id, ok |-> TRUE, error |-> ""])
        /\ UNCHANGED <<workflow_vars, config_vars, state_dir, pause_marker, disk, pc, last_run, resumed, state,
                       planner, running_count, ready_steps, dispatched, succeeded>>

\* execute_step returns an error
WorkerFails ==
    \E w \in workers : \E e \in ErrorMessages :
        /\ workers' = workers \ {w}
        /\ Send(w, [id |-> w.id, ok |-> FALSE, error |-> e])
        /\ UNCHANGED <<workflow_vars, config_vars, state_dir, pause_marker, files, disk, pc, last_run, resumed,
                       state, planner, running_count, ready_steps, dispatched, succeeded>>

\* the process dies during a run: the threads and the channel are gone
Crash ==
    /\ pc # "idle"
    /\ Return([kind |-> "Crashed"])
    /\ workers' = {}
    /\ UNCHANGED <<workflow_vars, config_vars, state_dir, pause_marker, files, disk, resumed>>

\* main returns after a failed run: the threads still running end with it
ProcessExit ==
    /\ pc = "idle"
    /\ workers # {}
    /\ workers' = {}
    /\ UNCHANGED <<workflow_vars, config_vars, state_dir, pause_marker, files, disk, run_vars>>

\* somebody creates or removes the pause file
PauseToggle ==
    /\ pause_flag_path
    /\ pause_marker' = ~pause_marker
    /\ UNCHANGED <<workflow_vars, config_vars, state_dir, files, disk, run_vars, workers>>

\* between two runs somebody removes an output file
DeleteOutput ==
    /\ pc = "idle"
    /\ \E f \in files : files' = files \ {f}
    /\ UNCHANGED <<workflow_vars, config_vars, state_dir, pause_marker, disk, run_vars, workers>>

Next ==
    \/ LoadWorkflow
    \/ RunStart
    \/ Schedule
    \/ ForNext
    \/ PauseResume
    \/ Dispatch
    \/ Finish
    \/ Spin
    \/ Receive
    \/ WorkerSucceeds
    \/ WorkerFails
    \/ Crash
    \/ ProcessExit
    \/ PauseToggle
    \/ DeleteOutput

Spec == Init /\ [][Next]_vars

(***************************************************************************)
(* Properties of the scheduling.                                           *)
(***************************************************************************)
RECURSIVE SumThreads(_)
\* the sum of `threads` over a sequence of steps
SumThreads(ss) == IF ss = <<>> THEN 0 ELSE Head(ss).threads + SumThreads(Tail(ss))

\* the steps of the planner's workflow that are in its Running set, in order
RunningSteps(p) ==
    SelectSeq(p.steps, LAMBDA s : s.id \in p.running_steps)

\* the status the planner's metrics hold for an id ("Unknown" when it has none)
StatusOf(p, id) ==
    IF id \in DOMAIN p.step_metrics THEN p.step_metrics[id].status ELSE "Unknown"

\* every id of the step's `previous` list is Completed or Skipped
DependenciesDone(p, step) ==
    \A i \in 1..Len(step.previous) :
        StatusOf(p, step.previous[i]) \in {"Completed", "Skipped"}

\* C1: whatever the planner has been through (resumed or fresh), every step
\* get_ready_steps returns has all the ids of its `previous` list Completed or
\* Skipped, and so has every step the engine holds for dispatch or has running.
C1_ReadyAfterDependencies ==
    /\ \A i \in 1..Len(get_ready_steps(planner)) :
          DependenciesDone(planner, get_ready_steps(planner)[i])
    /\ \A i \in 1..Len(ready_steps) : DependenciesDone(planner, ready_steps[i])
    /\ \A i \in 1..Len(RunningSteps(planner)) :
          DependenciesDone(planner, RunningSteps(planner)[i])

\* a step with dependencies is about to be dispatched, one of them skipped on
\* resume
C1_Witness ==
    /\ pc = "spawn"
    /\ Head(ready_steps).previous # <<>>
    /\ \E i \in 1..Len(Head(ready_steps).previous) :
          StatusOf(planner, Head(ready_steps).previous[i]) = "Skipped"

\* C2: at every point of a run the threads of the steps in the Running set sum
\* to at most max_system_threads.
C2_RunningThreadsWithinCeiling ==
    SumThreads(RunningSteps(planner)) <= planner.max_system_threads

\* the running steps use every thread while the coordinator has room for
\* another job and a step whose dependencies are done is held back
C2_Witness ==
    /\ Len(RunningSteps(planner)) >= 1
    /\ SumThreads(RunningSteps(planner)) = planner.max_system_threads
    /\ \E i \in 1..Len(steps) :
          /\ StatusOf(planner, steps[i].id) = "Pending"
          /\ deps_complete(planner, steps[i])
          /\ running_count < max_parallel

\* C3: in a run that is not dry, the coordinator's running count and the size of
\* the planner's Running set never exceed max_parallel.
C3_RunningWithinMaxParallel ==
    ~dry_run =>
        /\ running_count <= max_parallel
        /\ Cardinality(planner.running_steps) <= max_parallel

\* max_parallel steps run while another step with its dependencies done waits
C3_Witness ==
    /\ ~dry_run
    /\ max_parallel > 0
    /\ running_count = max_parallel
    /\ Cardinality(planner.running_steps) = max_parallel
    /\ \E i \in 1..Len(steps) :
          /\ StatusOf(planner, steps[i].id) = "Pending"
          /\ deps_complete(planner, steps[i])
          /\ ~OverThreadLimit(planner, 0, steps[i])

\* C4: one call of get_ready_steps returns at most max_parallel_jobs steps, and
\* their threads together with the threads in use stay within the ceiling.
C4_ReadyWithinLimits ==
    LET ready == get_ready_steps(planner)
    IN  /\ Len(ready) <= planner.max_parallel_jobs
        /\ planner.current_threads_used + SumThreads(ready) <= planner.max_system_threads

\* a call returns exactly max_parallel_jobs steps and leaves out a step that is
\* ready but for the job limit, while a step is running
C4_Witness ==
    LET ready == get_ready_steps(planner)
    IN  /\ Len(ready) = planner.max_parallel_jobs
        /\ Len(ready) > 0
        /\ planner.current_threads_used > 0
        /\ \E i \in 1..Len(steps) :
              /\ StatusOf(planner, steps[i].id) = "Pending"
              /\ deps_complete(planner, steps[i])
              /\ \A j \in 1..Len(ready) : ready[j].id # steps[i].id


(***************************************************************************)
(* Properties of loading: dependency population, validation and order.     *)
(***************************************************************************)
\* the position of the first step with this id, 0 when there is none
IndexOf(ss, id) ==
    IF KnownStep(ss, id)
    THEN CHOOSE i \in 1..Len(ss) : ss[i].id = id /\ \A j \in 1..(i - 1) : ss[j].id # id
    ELSE 0

\* (dependency, dependent) for every entry of a `previous` list
PreviousEdges(ss) ==
    UNION {{<<ss[i].previous[k], ss[i].id>> : k \in 1..Len(ss[i].previous)} :
             i \in 1..Len(ss)}

\* (step, successor) for every entry of a `next` list
NextEdges(ss) ==
    UNION {{<<ss[i].id, ss[i].next[k]>> : k \in 1..Len(ss[i].next)} : i \in 1..Len(ss)}

\* the pairs joined by two consecutive edges of P
Join(P) == UNION {{<<x[1], y[2]>> : y \in {z \in P : z[1] = x[2]}} : x \in P}

RECURSIVE Paths(_, _)
\* the pairs joined by a path of at most 2^n of the edges
Paths(edges, n) ==
    IF n = 0 THEN edges ELSE LET P == Paths(edges, n - 1) IN P \cup Join(P)

\* some step of ss reaches itself along the edges (ss has fewer than
\* 2^Len(ss) steps)
HasCycle(edges, ss) == \E e \in Paths(edges, Len(ss)) : e[1] = e[2]

\* every step stands after all the ids of its `previous` list
DependenciesFirst(ss) ==
    \A i \in 1..Len(ss) : \A k \in 1..Len(ss[i].previous) :
        LET d == IndexOf(ss, ss[i].previous[k]) IN d # 0 /\ d < i

\* C5: for an acyclic workflow (no cycle along its `previous` and `next`
\* entries), the order validation leaves the steps in places every step after
\* all the ids of its `previous` list.
C5_DependenciesPrecede ==
    (loaded = "ok" /\ ~HasCycle(PreviousEdges(steps) \cup NextEdges(steps), steps))
        => DependenciesFirst(steps)

\* C6: a workflow whose dependency graph (the `previous` entries) has a cycle
\* and that validation has finished with is rejected with the cyclic-dependency
\* error.
C6_CycleRejected ==
    (loaded \in {"ok", "err"} /\ HasCycle(PreviousEdges(steps), steps))
        => /\ loaded = "err"
           /\ load_errors = <<[kind |-> "CyclicDependency"]>>

\* the non-empty file names a step declares as output, split and trimmed
OutputFiles(step) == Range(NonEmptyOnly(FlatFiles(step.output)))

\* two different steps declare the same output file
SharedOutput(ss) ==
    \E i, j \in 1..Len(ss) : i # j /\ OutputFiles(ss[i]) \cap OutputFiles(ss[j]) # {}

\* no step has an entry in `previous` or `next`
NoEdges(ss) == \A i \in 1..Len(ss) : ss[i].previous = <<>> /\ ss[i].next = <<>>

\* C7: loading a workflow without explicit dependencies in which two steps
\* declare the same output file fails with the ambiguous-producer error and
\* leaves every `previous` and `next` list empty.
C7_AmbiguousProducer ==
    [][(loaded = "raw" /\ ~has_explicit_deps(steps) /\ SharedOutput(steps))
          => /\ loaded' = "err"
             /\ Len(load_errors') = 1
             /\ load_errors'[1].kind = "MultipleProducers"
             /\ NoEdges(steps')]_vars

\* such a load has failed, on a file two steps declare next to other files and
\* another step consumes
C7_Witness ==
    /\ loaded = "err"
    /\ load_errors # <<>>
    /\ load_errors[1].kind = "MultipleProducers"
    /\ SharedOutput(steps)
    /\ \E i \in 1..Len(steps) : Cardinality(OutputFiles(steps[i])) > 1
    /\ \E i \in 1..Len(steps) : steps[i].input # <<>>

(***************************************************************************)
(* Properties of resuming and of the ledger.                               *)
(***************************************************************************)
\* C8 as stated: a run invoked after a run that executed the workflow and
\* returned Ok dispatches no step.
C8_ResumeDispatchesNothing ==
    (~dry_run /\ resumed.after = "Ok") => dispatched = {}

\* C8 as the code has it: a run that is not dry, invoked after a run that
\* returned Ok, at a moment when every step declares an output and all declared
\* outputs exist, dispatches no step and holds every step as Skipped.
C8_ResumeWithOutputsDispatchesNothing ==
    (~dry_run /\ resumed.after = "Ok" /\ resumed.outputs_exist)
        => /\ dispatched = {}
           /\ pc # "idle" =>
                 \A i \in 1..Len(steps) : StatusOf(planner, steps[i].id) = "Skipped"

\* the second run of a workflow of several steps has found nothing to do
C8_Witness ==
    /\ ~dry_run /\ resumed.after = "Ok" /\ resumed.outputs_exist
    /\ pc = "check"
    /\ Len(steps) > 2
    /\ planner.completed_steps = StepIds(steps)

\* whether the planner of a run of the diamond with two jobs and threads for
\* both branches is in place
DiamondRun ==
    /\ pc # "idle"
    /\ [i \in 1..Len(steps) |-> steps[i].id] = <<A, B, C, D>>
    /\ max_parallel = 2
    /\ planner.max_system_threads >= 2

ReadyIds(p) == [i \in 1..Len(get_ready_steps(p)) |-> get_ready_steps(p)[i].id]

Done(p, id) == StatusOf(p, id) \in {"Completed", "Skipped"}

\* C9: in the diamond a -> {b, c} -> d with max_parallel = 2 and threads for
\* both branches, b and c are returned together by get_ready_steps once a is
\* done and both are pending, and d is returned only when b and c are both done
\* (Completed in this run, or Skipped on resume), whichever finished first.
C9_Diamond ==
    DiamondRun =>
        /\ (Done(planner, A) /\ StatusOf(planner, B) = "Pending"
                             /\ StatusOf(planner, C) = "Pending")
              => ReadyIds(planner) = <<B, C>>
        /\ (\E i \in 1..Len(ReadyIds(planner)) : ReadyIds(planner)[i] = D)
              => Done(planner, B) /\ Done(planner, C)
        /\ StatusOf(planner, D) \in {"Running", "Completed"}
              => Done(planner, B) /\ Done(planner, C)

\* b and c run at the same time
C9_Witness ==
    /\ DiamondRun
    /\ StatusOf(planner, A) = "Completed"
    /\ planner.running_steps = {B, C}
    /\ running_count = 2

\* the completed set of the ledger on disk (empty when there is none to read)
LedgerCompleted(d) == LoadOrNew(d).completed_steps

Receives ==
    /\ pc = "check" /\ channel # <<>>
    /\ pc' # "check"
    /\ ~(pc' = "idle" /\ last_run'.kind = "Crashed")

Stuck ==
    /\ pc = "check"
    /\ running_count = 0
    /\ has_work_remaining(planner)
    /\ (~HasCapacity \/ get_ready_steps(planner) = <<>>)

\* C12: the coordinator never loops with nothing running while work remains,
\* so that a run whose workers all report and whose pause file goes away
\* returns.  Stated for the runs with max_parallel of at least 1 on workflows
\* whose `previous` lists hold no cycle.
C12_NeverStuck ==
    (max_parallel >= 1 /\ ~HasCycle(PreviousEdges(steps), steps)) => ~Stuck

\* run returns Ok in this step
ReturnsOk == pc # "idle" /\ pc' = "idle" /\ last_run'.kind = "Ok"

\* C13: when run returns Ok, every step of the workflow is Completed or
\* Skipped in the planner it returns with, and its Running set is empty.
C13_OkMeansAllDone ==
    [][ReturnsOk
          => /\ \A i \in 1..Len(steps) :
                   StatusOf(planner, steps[i].id) \in {"Completed", "Skipped"}
             /\ planner.running_steps = {}]_vars

\* a run of the diamond that executed steps has returned Ok and left all four
\* in the ledger
C13_Witness ==
    /\ pc = "idle"
    /\ last_run.kind = "Ok"
    /\ ~dry_run
    /\ Len(steps) = 4
    /\ LedgerCompleted(disk) = StepIds(steps)

(***************************************************************************)
(* Properties of the start of a run.                                       *)
(***************************************************************************)
\* run starts in this step
Starts == pc = "idle" /\ pc' = "schedule"

\* every file the step declares as output exists (true of a step that
\* declares none)
OutputsPresent(step, existing) == OutputFiles(step) \subseteq existing

\* a step stays out of the dispatched set while it is Skipped
SkippedNotDispatched ==
    \A i \in 1..Len(steps) :
        StatusOf(planner', steps[i].id) = "Skipped" => steps[i].id \notin dispatched'

\* C14 as stated: at the start of a run, a step the ledger marks completed is
\* Skipped when its declared outputs are all present, and is taken out of the
\* completed set and left Pending for dispatch when one is missing; a Skipped
\* step is never dispatched.
C14_LedgerVerified ==
    [][/\ Starts =>
             \A i \in 1..Len(steps) :
                 steps[i].id \in LedgerCompleted(disk) =>
                     IF OutputsPresent(steps[i], files)
                     THEN StatusOf(planner', steps[i].id) = "Skipped"
                     ELSE /\ StatusOf(planner', steps[i].id) = "Pending"
                          /\ steps[i].id \notin state'.completed_steps
       /\ SkippedNotDispatched]_vars

\* C14 as the code has it: the step is Skipped when it declares an output and
\* all its declared outputs are present; when it declares none, or one is
\* missing, it is taken out of the completed set and left Pending for dispatch.
C14_LedgerVerifiedWithOutputs ==
    [][/\ Starts =>
             \A i \in 1..Len(steps) :
                 steps[i].id \in LedgerCompleted(disk) =>
                     IF steps[i].output # <<>> /\ OutputsPresent(steps[i], files)
                     THEN StatusOf(planner', steps[i].id) = "Skipped"
                     ELSE /\ StatusOf(planner', steps[i].id) = "Pending"
                          /\ steps[i].id \notin state'.completed_steps
       /\ SkippedNotDispatched]_vars

\* a run has just started with one step of the ledger Skipped and another,
\* whose output file is gone, taken out of the completed set
C14_Witness ==
    /\ pc = "schedule" /\ dispatched = {}
    /\ \E i, j \in 1..Len(steps) :
          /\ StatusOf(planner, steps[i].id) = "Skipped"
          /\ steps[j].id \in LedgerCompleted(disk)
          /\ steps[j].output # <<>>
          /\ ~OutputsPresent(steps[j], files)
          /\ StatusOf(planner, steps[j].id) = "Pending"
          /\ steps[j].id \notin state.completed_steps

(***************************************************************************)
(* ExecutionPlanner::from_state on its own (workflow/planner.rs): the      *)
(* workflow is loaded, the planner is built from a persisted state that    *)
(* may name steps the workflow does not have, and the planner is asked for *)
(* the ready steps.                                                        *)
(***************************************************************************)
\* an id of the persisted state that no workflow here has
Gone == <<"g">>

\* the persisted states from_state is given
PersistedStates ==
    [completed_steps : SUBSET {A, B, C, D, Gone}, failed_step : {<<>>, <<A>>}]

InitResume ==
    /\ steps \in EngineWorkflows
    /\ max_parallel \in 1..MaxParallel
    /\ dry_run \in BOOLEAN
    /\ pause_flag_path = FALSE
    /\ cpus \in 1..MaxCpus
    /\ wildcard_files = <<>>
    /\ workflow_path = DefaultWorkflow
    /\ state_dir = <<>>
    /\ tools = <<>>
    /\ loaded = "raw"
    /\ load_errors = <<>>
    /\ pause_marker = FALSE
    /\ files = {}
    /\ disk = LedgerAbsent
    /\ pc = "idle"
    /\ last_run = NoRun
    /\ resumed = NoResume
    /\ state \in PersistedStates
    /\ planner = NoPlanner
    /\ running_count = 0
    /\ ready_steps = <<>>
    /\ workers = {}
    /\ channel = <<>>
    /\ dispatched = {}
    /\ succeeded = {}

\* ExecutionPlanner::from_state(workflow, state, dry_run, max_parallel, None)
FromState ==
    /\ pc = "idle"
    /\ loaded = "ok"
    /\ planner' = from_state(steps, state, dry_run, max_parallel, cpus)
    /\ pc' = "schedule"
    /\ UNCHANGED <<workflow_vars, config_vars, state_dir, pause_marker, files, disk, last_run, resumed,
                   state, running_count, ready_steps, workers, channel, dispatched,
                   succeeded>>

NextResume == LoadWorkflow \/ FromState \/ Schedule

SpecResume == InitResume /\ [][NextResume]_vars

\* the Pending steps whose dependencies are all Completed or Skipped and whose
\* threads the machine has
Eligible(p) ==
    {i \in 1..Len(p.steps) :
        /\ StatusOf(p, p.steps[i].id) = "Pending"
        /\ DependenciesDone(p, p.steps[i])
        /\ p.steps[i].threads <= p.max_system_threads}

\* C15: the planner from_state builds has exactly the ids of the persisted
\* state that the workflow has as Skipped and every other step Pending; its
\* progress counts the Skipped steps; an id the workflow does not have leaves
\* no trace in it; and the readiness query takes a Skipped dependency as done:
\* every step it returns is Pending with all dependencies Skipped, and the
\* first such step heads the answer.
C15_FromState ==
    pc # "idle" =>
        /\ \A i \in 1..Len(steps) :
              StatusOf(planner, steps[i].id) =
                  IF steps[i].id \in state.completed_steps THEN "Skipped" ELSE "Pending"
        /\ progress(planner) =
              <<Cardinality({id \in StepIds(steps) : StatusOf(planner, id) = "Skipped"}),
                Len(steps)>>
        /\ DOMAIN planner.step_metrics = StepIds(steps)
        /\ planner.completed_steps = state.completed_steps \cap StepIds(steps)
        /\ planner.running_steps = {}
        /\ pc \in {"for", "check"} =>
              /\ \A k \in 1..Len(ready_steps) :
                    /\ StatusOf(planner, ready_steps[k].id) = "Pending"
                    /\ DependenciesDone(planner, ready_steps[k])
              /\ IF Eligible(planner) = {}
                 THEN pc = "check"
                 ELSE /\ pc = "for"
                      /\ Head(ready_steps) =
                            steps[CHOOSE i \in Eligible(planner) :
                                      \A j \in Eligible(planner) : i <= j]

\* the planner was built from a state that names a step the workflow does not
\* have, and the step at the head of the ready steps depends on a Skipped one
C15_Witness ==
    /\ pc = "for"
    /\ Gone \in state.completed_steps
    /\ Head(ready_steps).previous # <<>>
    /\ \A i \in 1..Len(Head(ready_steps).previous) :
          StatusOf(planner, Head(ready_steps).previous[i]) = "Skipped"
    /\ \E i \in 1..Len(steps) : StatusOf(planner, steps[i].id) = "Pending"

\* the step at the head of the ready steps is marked running in this step
Dispatches == pc = "spawn" /\ pc' = "for"

\* the status changes of a step inside one run; a dry run marks the step
\* running and completed in one go
LifecycleMoves ==
    {<<"Pending", "Running">>, <<"Running", "Completed">>, <<"Running", "Failed">>}
        \cup (IF dry_run THEN {<<"Pending", "Completed">>} ELSE {})

\* C16: inside a run a step's status changes only from Pending to Running and
\* from Running to Completed or Failed (Completed, Failed and Skipped are left
\* by no change); a status is first given when the run starts, Pending or
\* Skipped, and Skipped at no other moment; and a step that is marked running
\* was Pending and had not been marked running in this run before.
C16_Lifecycle ==
    [][/\ \A i \in 1..Len(steps) :
             LET old == StatusOf(planner, steps[i].id)
                 new == StatusOf(planner', steps[i].id)
             IN  old # new =>
                     \/ Starts /\ old = "Unknown" /\ new \in {"Pending", "Skipped"}
                     \/ pc' = "idle" /\ new = "Unknown"
                     \/ pc # "idle" /\ pc' # "idle" /\ <<old, new>> \in LifecycleMoves
       /\ Dispatches =>
             /\ StatusOf(planner, Head(ready_steps).id) = "Pending"
             /\ Head(ready_steps).id \notin dispatched
             /\ dispatched' = dispatched \cup {Head(ready_steps).id}
             /\ StatusOf(planner', Head(ready_steps).id)
                   = IF dry_run THEN "Completed" ELSE "Running"]_vars

\* a run that started with a Skipped step has one step Completed and another
\* Running
C16_Witness ==
    /\ pc # "idle" /\ ~dry_run
    /\ \E i, j, k \in 1..Len(steps) :
          /\ StatusOf(planner, steps[i].id) = "Skipped"
          /\ StatusOf(planner, steps[j].id) = "Completed"
          /\ StatusOf(planner, steps[k].id) = "Running"

(* Properties of pausing and of saving. *)
\* the coordinator has seen the marker and waits in check_pause_flag
Paused == pc = "paused"

\* C17: a coordinator that finds the marker at the configured path waits; while
\* it waits no step is marked running, no worker is spawned, nothing is
\* received, and the steps that are Running stay so while their workers go on
\* to send their results; it leaves the wait only with the marker gone, and
\* then goes on to dispatch the step it had stopped at.
C17_PauseBlocksDispatch ==
    [][/\ (pc = "for" /\ pc' = "spawn") => ~(pause_flag_path /\ pause_marker)
       /\ (Paused /\ pc' # "idle") =>
             /\ planner' = planner
             /\ dispatched' = dispatched
             /\ running_count' = running_count
             /\ ready_steps' = ready_steps
             /\ \A w \in workers' : w \in workers
             /\ Len(channel') >= Len(channel)
             /\ SubSeq(channel', 1, Len(channel)) = channel
             /\ pc' \in {"paused", "spawn"}
             /\ pc' = "spawn" => ~pause_marker
       /\ (Paused /\ ~pause_marker) => ENABLED PauseResume]_vars

\* the coordinator waits with the marker in place while the result of a step
\* that is Running has arrived in the channel
C17_Witness ==
    /\ Paused /\ pause_marker
    /\ \E k \in 1..Len(channel) : StatusOf(planner, channel[k].id) = "Running"

\* C18: a save of the state that fails after a step's result is a warning: no
\* run returns an error because of it.
C18_SaveFailureNotFatal == last_run.kind # "SaveFailed"

\* C19: a run that finds the state file absent or unreadable starts from a
\* fresh state (no completed step, no failed step) and a fresh planner: no
\* step is Skipped, every step is Pending and none is counted as done; and a
\* run without a Skipped step that returns Ok has dispatched every step.
C19_FreshStart ==
    [][/\ (Starts /\ disk.kind # "ok") =>
             /\ state' = StateNew
             /\ planner' = PlannerNew(steps, dry_run, max_parallel, cpus)
             /\ \A i \in 1..Len(steps) : StatusOf(planner', steps[i].id) = "Pending"
             /\ progress(planner') = <<0, Len(steps)>>
             /\ disk' = disk
       /\ (ReturnsOk /\ \A i \in 1..Len(steps) : StatusOf(planner, steps[i].id) # "Skipped")
             => dispatched = StepIds(steps)]_vars

\* a run has just started from an unreadable state file, with output files of
\* an earlier run in place and every step Pending
C19_Witness ==
    /\ pc = "schedule" /\ dispatched = {}
    /\ disk = LedgerCorrupt
    /\ files # {}
    /\ Len(steps) > 0
    /\ \A i \in 1..Len(steps) : StatusOf(planner, steps[i].id) = "Pending"

(***************************************************************************)
(* validate_workflow on its own (workflow/validator.rs), given workflows   *)
(* as they are deserialized, with structural violations.                   *)
(***************************************************************************)
\* a step as serde builds it: the fields as written, nothing trimmed
DeserializedStep(id, tool, command, previous, next) ==
    [id |-> id, tool |-> tool, command |-> command,
     input |-> <<>>, output |-> <<>>, previous |-> previous, next |-> next,
     threads |-> 1]

\* steps with an empty, a blank or a proper id, with and without a tool and a
\* command, with a dependency on a step that is not there (c) and a dependent
\* that may be there (a)
DraftSteps ==
    {DeserializedStep(id, tool, command, previous, next) :
        id \in {<<>>, <<" ">>, A}, tool \in {<<>>, Bc}, command \in {<<" ">>, Bc},
        previous \in {<<>>, <<C>>}, next \in {<<>>, <<A>>}}

InitValidate ==
    /\ steps \in UNION {[1..n -> DraftSteps] : n \in 1..MaxDraftSteps}
    /\ max_parallel = 1
    /\ dry_run = FALSE
    /\ pause_flag_path = FALSE
    /\ cpus = 1
    /\ InitEngine

\* validate_workflow(&mut workflow); the build decides whether the in-degree
\* subtraction is checked
ValidateWorkflow ==
    /\ loaded = "raw"
    /\ \E checks \in BOOLEAN :
          LET r == validate_workflow(steps, tools, checks)
          IN  /\ steps' = r.steps
              /\ tools' = r.tools
              /\ loaded' = r.status
              /\ load_errors' = r.errors
    /\ UNCHANGED <<config_vars, state_dir, pause_marker, files, disk, run_vars, workers>>

NextValidate == ValidateWorkflow

SpecValidate == InitValidate /\ [][NextValidate]_vars

\* the structural violations of a workflow, each as the error that names it
DuplicateIds(ss) ==
    {[kind |-> "DuplicateStepId", step |-> ss[i].id] :
        i \in {k \in 1..Len(ss) : \E j \in 1..(k - 1) : ss[j].id = ss[k].id}}

EmptyIds(ss) ==
    {[kind |-> "EmptyStepId"] : i \in {k \in 1..Len(ss) : Trim(ss[k].id) = <<>>}}

EmptyFields(ss, idless) ==
    {[kind |-> "EmptyTool", step |-> ss[i].id] :
        i \in {k \in 1..Len(ss) : /\ Trim(ss[k].tool) = <<>>
                                  /\ (Trim(ss[k].id) = <<>>) \in idless}}
    \cup
    {[kind |-> "EmptyCommand", step |-> ss[i].id] :
        i \in {k \in 1..Len(ss) : /\ Trim(ss[k].command) = <<>>
                                  /\ (Trim(ss[k].id) = <<>>) \in idless}}

DanglingReferences(ss) ==
    UNION {{[kind |-> "InvalidReference", step |-> ss[i].id, reference |-> ref] :
               ref \in (Range(ss[i].previous) \cup Range(ss[i].next)) \ StepIds(ss)} :
           i \in 1..Len(ss)}

C21_ConsistentEdges ==
    loaded = "ok" =>
        /\ PreviousEdges(steps) = NextEdges(steps)
        /\ \A e \in PreviousEdges(steps) \cup NextEdges(steps) :
              e[1] \in StepIds(steps) /\ e[2] \in StepIds(steps)

(***************************************************************************)
(* expand_workflow_wildcards on its own (workflow/wildcards.rs): workflows *)
(* of templated and plain steps, and a map from wildcard names to files.   *)
(***************************************************************************)
\* the wildcard names
S == <<"s">>
T == <<"t">>

\* "{s}", "{t}" and patterns built from them
TokenS == <<"{", "s", "}">>
TokenT == <<"{", "t", "}">>

\* the step of the given id written after the k-th pattern:
\*   1  no wildcard anywhere
\*   2  {s} in the input, twice in the outputs and twice in the command
\*   3  as 2, and depending on step a
\*   4  {s} in the input and {t} in the output
\*   5  {t} in the output only
\*   6  {s} in the command only
\*   7  braces without a name in the input
Template(k, id) ==
    LET plain == [DeserializedStep(id, Bc, Bc, <<>>, <<>>) EXCEPT
                    !.input = <<R>>, !.output = <<W>>]
        per_s == [plain EXCEPT !.input = <<TokenS \o <<".", "x">>>>,
                               !.output = <<TokenS \o <<".", "y">>, <<"d", "/">> \o TokenS>>,
                               !.command = <<"c", " ">> \o TokenS \o TokenS]
    IN  CASE k = 1 -> plain
          [] k = 2 -> per_s
          [] k = 3 -> [per_s EXCEPT !.previous = <<A>>]
          [] k = 4 -> [per_s EXCEPT !.output = <<TokenT \o <<".", "y">>>>]
          [] k = 5 -> [plain EXCEPT !.output = <<TokenT>>]
          [] k = 6 -> [plain EXCEPT !.command = <<"c", " ">> \o TokenS]
          [] k = 7 -> [plain EXCEPT !.input = <<<<"{", "}">>>>]

TemplateKinds == 1..7

\* the workflows of 1..MaxTemplateSteps steps, the i-th with the i-th id
TemplateWorkflows ==
    UNION {{[i \in 1..n |-> Template(kinds[i], Ids[i])] : kinds \in [1..n -> TemplateKinds]} :
           n \in 1..MaxTemplateSteps}

\* the files a wildcard is bound to: with and without an extension, with and
\* without a directory
BoundFileNames ==
    {<<"a", ".", "x">>, <<"b", ".", "x">>, <<"b", ".", "y">>, <<"d", "/", "a", ".", "x">>,
     <<"c">>}

BoundFileLists == UNION {[1..n -> BoundFileNames] : n \in 0..MaxBoundFiles}

\* the maps that bind s, t, both or neither
WildcardMaps ==
    {[name \in names |-> IF name = S THEN s_files ELSE <<Z>>] :
        names \in SUBSET {S, T}, s_files \in BoundFileLists}

InitWildcards ==
    /\ steps \in TemplateWorkflows
    /\ \E mapping \in WildcardMaps : wildcard_files = <<mapping>>
    /\ workflow_path = DefaultWorkflow
    /\ state_dir = <<>>
    /\ max_parallel = 1
    /\ dry_run = FALSE
    /\ pause_flag_path = FALSE
    /\ cpus = 1
    /\ tools = <<>>
    /\ loaded = "raw"
    /\ load_errors = <<>>
    /\ pause_marker = FALSE
    /\ files = {}
    /\ disk = LedgerAbsent
    /\ pc = "idle"
    /\ last_run = NoRun
    /\ resumed = NoResume
    /\ state = StateNew
    /\ planner = NoPlanner
    /\ running_count = 0
    /\ ready_steps = <<>>
    /\ workers = {}
    /\ channel = <<>>
    /\ dispatched = {}
    /\ succeeded = {}

\* expand_workflow_wildcards(&mut workflow, &wildcard_files)
ExpandWildcards ==
    /\ loaded = "raw"
    /\ wildcard_files # <<>>
    /\ LET r == expand_workflow_wildcards(steps, wildcard_files[1])
       IN  /\ steps' = r.steps
           /\ loaded' = IF r.status = "ok" THEN "expanded" ELSE "err"
           /\ load_errors' = r.errors
    /\ UNCHANGED <<tools, config_vars, state_dir, pause_marker, files, disk, run_vars, workers>>

NextWildcards == ExpandWildcards

SpecWildcards == InitWildcards /\ [][NextWildcards]_vars

\* the expansion succeeds in this step
Expands == loaded = "raw" /\ loaded' = "expanded"

\* the text has the token somewhere
Occurs(text, token) ==
    \E i \in 1..(Len(text) - Len(token) + 1) : SubSeq(text, i, i + Len(token) - 1) = token

\* the wildcard names whose token is in an input or an output of the step
UsedNames(step) ==
    {name \in {S, T} :
        \E text \in Range(step.input) \cup Range(step.output) :
            Occurs(text, <<"{">> \o name \o <<"}">>)}

\* the step has no brace in its inputs, outputs and command
WithoutWildcards(step) ==
    \A text \in Range(step.input) \cup Range(step.output) \cup {step.command} :
        ~Contains(text, "{") /\ ~Contains(text, "}")

\* every step is without wildcards or templated on one name that is bound
OneBoundNameEach(ss, mapping) ==
    \A i \in 1..Len(ss) :
        \/ WithoutWildcards(ss[i])
        \/ \E name \in DOMAIN mapping : UsedNames(ss[i]) = {name}

\* the part of a file after its last dot, if it has one that is not its first
\* character and is followed by no '/'
SuffixOf(file) ==
    LET k == LastIndexOf(file, ".")
    IN  IF k > 1 /\ k > LastIndexOf(file, "/") + 1
        THEN <<SubSeq(file, k + 1, Len(file))>> ELSE <<>>

\* the file without the directories in front
BaseName(file) == SubSeq(file, LastIndexOf(file, "/") + 1, Len(file))

\* the file without its suffix and the dot
WithoutSuffix(file) ==
    IF SuffixOf(file) = <<>> THEN file
    ELSE SubSeq(file, 1, Len(file) - Len(SuffixOf(file)[1]) - 1)

\* the value of a bound file, read as "the file with the extension that all
\* the bound files share stripped"
StrippedValue(file, bound) ==
    IF /\ SuffixOf(file) # <<>>
       /\ \A i \in 1..Len(bound) : SuffixOf(bound[i]) = SuffixOf(file)
    THEN WithoutSuffix(file) ELSE file

\* the value of a bound file as extract_wildcard_values has it: the file's
\* name without its directories, and without its extension when the bound
\* files that have an extension all have the same one
StemValue(file, bound) ==
    IF Cardinality({SuffixOf(bound[i]) : i \in 1..Len(bound)} \ {<<>>}) = 1
    THEN WithoutSuffix(BaseName(file)) ELSE BaseName(file)

\* what the claim speaks of: id, tool, command, inputs and outputs
Core(step) ==
    [id |-> step.id, tool |-> step.tool, command |-> step.command,
     input |-> step.input, output |-> step.output]

\* the steps a step is replaced by: itself, or one per bound file with the
\* value appended to the id and put in place of every token
Instances(step, mapping, stem) ==
    IF WithoutWildcards(step) THEN <<Core(step)>>
    ELSE LET name == CHOOSE n \in UsedNames(step) : TRUE
             bound == mapping[name]
             token == <<"{">> \o name \o <<"}">>
         IN  [i \in 1..Len(bound) |->
                LET value == IF stem THEN StemValue(bound[i], bound)
                             ELSE StrippedValue(bound[i], bound)
                IN  [id |-> step.id \o <<"_">> \o value,
                     tool |-> step.tool,
                     command |-> Replace(step.command, token, value),
                     input |-> [k \in 1..Len(step.input) |->
                                  Replace(step.input[k], token, value)],
                     output |-> [k \in 1..Len(step.output) |->
                                   Replace(step.output[k], token, value)]]]

RECURSIVE AllInstances(_, _, _)
AllInstances(ss, mapping, stem) ==
    IF ss = <<>> THEN <<>>
    ELSE Instances(Head(ss), mapping, stem) \o AllInstances(Tail(ss), mapping, stem)

ExpansionReturns == loaded = "raw" /\ loaded' # "raw"

\* the expansion has failed and the step list is as it was
FailsClosed ==
    /\ loaded' = "err"
    /\ load_errors' # <<>>
    /\ steps' = steps

\* C23: the expansion fails with an error and leaves the step list unchanged
\* whenever some step uses more than one wildcard name or a name the map does
\* not bind; a step uses the names whose token is in its inputs or outputs
\* (the command's braces also hold the {input} and {output} placeholders).
C23_FailsOnFileTokens ==
    [][(/\ ExpansionReturns
        /\ \E i \in 1..Len(steps) :
              \/ Cardinality(UsedNames(steps[i])) > 1
              \/ \E name \in UsedNames(steps[i]) : name \notin DOMAIN wildcard_files[1])
          => FailsClosed]_vars

\* the expansion has failed at the second step, which names an unbound
\* wildcard, after a first step with two bound files; both steps are as they
\* were
C23_Witness ==
    /\ loaded = "err"
    /\ load_errors = <<[kind |-> "NoFilesForWildcard", step |-> B, wildcard |-> T]>>
    /\ steps = <<Template(2, A), Template(5, B)>>
    /\ S \in DOMAIN wildcard_files[1]
    /\ Len(wildcard_files[1][S]) = 2

(***************************************************************************)
(* Properties of the thread budget and of the ready set.                   *)
(***************************************************************************)
\* the Pending steps whose dependencies are all Completed or Skipped
Waiting(p) ==
    {i \in 1..Len(p.steps) :
        /\ StatusOf(p, p.steps[i].id) = "Pending"
        /\ DependenciesDone(p, p.steps[i])}

\* C24: a step with its dependencies satisfied is not kept back for ever by
\* the thread budget: once no step is running any more (all threads are
\* released), the readiness query returns the first such step.
C24_ReturnedOnceThreadsAreFree ==
    (pc # "idle" /\ max_parallel >= 1 /\ planner.running_steps = {}) =>
        \A i \in Waiting(planner) :
            (\A j \in Waiting(planner) : i <= j) =>
                planner.steps[i] \in Range(get_ready_steps(planner))

(***************************************************************************)
(* The planner on its own (workflow/planner.rs): a planner is built, new   *)
(* or from a persisted state, and its caller marks steps running,          *)
(* completed and failed.                                                   *)
(***************************************************************************)
InitPlanner ==
    /\ steps \in EngineWorkflows
    /\ max_parallel \in 1..MaxParallel
    /\ dry_run = FALSE
    /\ pause_flag_path = FALSE
    /\ cpus \in 1..MaxCpus
    /\ wildcard_files = <<>>
    /\ workflow_path = DefaultWorkflow
    /\ state_dir = <<>>
    /\ tools = <<>>
    /\ loaded = "raw"
    /\ load_errors = <<>>
    /\ pause_marker = FALSE
    /\ files = {}
    /\ disk = LedgerAbsent
    /\ pc = "idle"
    /\ last_run = NoRun
    /\ resumed = NoResume
    /\ state \in {StateNew, state_mark_completed(StateNew, A)}
    /\ planner = CreatePlanner(state, steps, dry_run, max_parallel, cpus)
    /\ running_count = 0
    /\ ready_steps = <<>>
    /\ workers = {}
    /\ channel = <<>>
    /\ dispatched = {}
    /\ succeeded = {}

\* the caller marks a step it was given as ready
MarkRunning ==
    /\ \E k \in 1..Len(get_ready_steps(planner)) :
          planner' = mark_step_running(planner, get_ready_steps(planner)[k].id)
    /\ UNCHANGED <<workflow_vars, config_vars, state_dir, pause_marker, files, disk, pc, last_run,
                   resumed, state, running_count, ready_steps, workers, channel,
                   dispatched, succeeded>>

\* the caller reports the success of a running step
MarkCompleted ==
    /\ \E id \in planner.running_steps : planner' = mark_step_completed(planner, id)
    /\ UNCHANGED <<workflow_vars, config_vars, state_dir, pause_marker, files, disk, pc, last_run,
                   resumed, state, running_count, ready_steps, workers, channel,
                   dispatched, succeeded>>

\* the caller reports the failure of a running step
MarkFailed ==
    /\ \E id \in planner.running_steps, error \in ErrorMessages :
          planner' = mark_step_failed(planner, id, error)
    /\ UNCHANGED <<workflow_vars, config_vars, state_dir, pause_marker, files, disk, pc, last_run,
                   resumed, state, running_count, ready_steps, workers, channel,
                   dispatched, succeeded>>

NextPlanner == MarkRunning \/ MarkCompleted \/ MarkFailed

SpecPlanner == InitPlanner /\ [][NextPlanner]_vars

\* C25: whatever the planner has been through, every step get_ready_steps
\* returns is Pending: no Running, Completed, Skipped or Failed step is in the
\* ready set.
C25_ReadyStepsArePending ==
    \A k \in 1..Len(get_ready_steps(planner)) :
        StatusOf(planner, get_ready_steps(planner)[k].id) = "Pending"

(***************************************************************************)
(* Properties of the workers and the channel.                              *)
(***************************************************************************)
\* the ids of the worker threads that have not sent yet
WorkerIds == {w.id : w \in workers}

\* the ids of the messages waiting in the channel
ChannelIds == {channel[k].id : k \in 1..Len(channel)}

\* the coordinator's books while a run that is not dry is going on: every
\* step dispatched and not yet received has either its worker still at work or
\* exactly one message in the channel, never both; the messages are for
\* Running steps; running_count counts exactly these steps
InFlightAccounted ==
    (pc # "idle" /\ ~dry_run) =>
        /\ WorkerIds \cup ChannelIds = dispatched \ succeeded
        /\ WorkerIds \cap ChannelIds = {}
        /\ Cardinality(workers) = Cardinality(WorkerIds)
        /\ Len(channel) = Cardinality(ChannelIds)
        /\ \A id \in ChannelIds : StatusOf(planner, id) = "Running"
        /\ running_count = Cardinality(dispatched \ succeeded)

\* a worker thread ends in this step
WorkerEnds == pc' = pc /\ Cardinality(workers') < Cardinality(workers)

\* C26: every dispatched worker puts exactly one message on the channel and
\* changes neither the planner nor the state nor the state file; whatever the
\* interleaving, the result the coordinator receives is for a step that is
\* Running, and running_count is the number of dispatched steps whose result
\* it has not received.
C26_OneResultPerWorker ==
    [][/\ InFlightAccounted'
       /\ WorkerEnds =>
             /\ planner' = planner /\ state' = state /\ disk' = disk
             /\ running_count' = running_count
             /\ pc # "idle" =>
                   /\ Len(channel') = Len(channel) + 1
                   /\ channel'[Len(channel')].id \in WorkerIds \ WorkerIds'
       /\ Receives => StatusOf(planner, Head(channel).id) = "Running"]_vars

\* in a run with one result received, the result of a second step waits in
\* the channel while the worker of a third is still at work
C26_Witness ==
    /\ pc # "idle" /\ ~dry_run
    /\ succeeded # {}
    /\ channel # <<>>
    /\ workers # {}
    /\ running_count = 2

\* the coordinator receives the failure of a step and the failure is saved
FailureSaved ==
    /\ Receives /\ ~Head(channel).ok
    /\ last_run'.kind = "StepFailed"

\* run has returned with the failure of a step, which is in the state file
ReturnedFailed ==
    /\ pc = "idle"
    /\ last_run.kind = "StepFailed"
    /\ disk.kind = "ok" /\ disk.state.failed_step = <<last_run.step>>

\* C27: a failure received while other steps are in flight cancels none of
\* them: their workers go on, but what they report is applied nowhere.  Once
\* the failure is saved and run has returned, the end of such a worker changes
\* neither the planner nor the state file nor the channel, and no step that
\* was in flight at the failure is among the completed steps of the state file.
C27_InFlightResultsDropped ==
    [][/\ FailureSaved =>
             /\ WorkerIds' = WorkerIds
             /\ \A id \in (WorkerIds \cup ChannelIds) \ {Head(channel).id} :
                   id \notin disk'.state.completed_steps
       /\ (ReturnedFailed /\ WorkerEnds) =>
             /\ planner' = planner /\ state' = state
             /\ disk' = disk
             /\ channel' = channel
             /\ last_run' = last_run]_vars

\* run has returned with a saved failure while another worker is still at
\* work on a step that the state file does not have as completed
C27_Witness ==
    /\ ReturnedFailed
    /\ \E w \in workers :
          /\ w.orphan
          /\ w.id # last_run.step
          /\ w.id \notin disk.state.completed_steps

(***************************************************************************)
(* The phases before a run: load_workflow on a workflow without wildcards, *)
(* expand_workflow_wildcards on a workflow with a wildcard map.            *)
(***************************************************************************)
InitFrontEnd == InitLoad \/ InitWildcards

NextFrontEnd ==
    \/ wildcard_files = <<>> /\ LoadWorkflow
    \/ ExpandWildcards

SpecFrontEnd == InitFrontEnd /\ [][NextFrontEnd]_vars

\* expansion, derivation or validation returns an error in this step
PhaseFails == loaded = "raw" /\ loaded' = "err"

\* the step list handed to the call that fails in this step: load_workflow
\* hands what populate_dependencies has left to validate_workflow
BeforeFailedCall ==
    IF wildcard_files = <<>> /\ populate_dependencies(steps).ok
    THEN populate_dependencies(steps).steps
    ELSE steps

\* C28: when wildcard expansion, dependency derivation or validate_workflow
\* returns an error, the step list is what it was before the call (the same
\* steps with the same edges in the same order), nothing has been executed,
\* the state file is untouched, and no run can start on the workflow.
C28_ErrorsFailClosed ==
    /\ [](loaded = "err" => ~ENABLED RunStart)
    /\ [][PhaseFails =>
             /\ steps' = BeforeFailedCall
             /\ load_errors' # <<>>
             /\ disk' = disk /\ files' = files
             /\ workers' = workers /\ dispatched' = dispatched
             /\ pc' = "idle"]_vars

\* validation has refused a workflow of several steps for a cycle
C28_Witness ==
    /\ loaded = "err"
    /\ Len(steps) >= 2
    /\ load_errors = <<[kind |-> "CyclicDependency"]>>
    /\ disk = LedgerAbsent

\* what a dry run leaves alone and the order in which it goes through the
\* steps: no worker thread, no state file, every dispatched step Completed as
\* soon as it is dispatched and none before the steps of its `previous` list
DryRunTouchesNothing ==
    /\ workers = {} /\ channel = <<>> /\ running_count = 0
    /\ disk = LedgerAbsent
    /\ \A id \in dispatched :
          /\ StatusOf(planner, id) = "Completed"
          /\ DependenciesDone(planner, FindStep(steps, id))

\* C29: a dry run spawns no worker and writes no state; the coordinator marks
\* every step that is not skipped Running and then Completed, each after the
\* steps of its `previous` list, and the run returns Ok: it never loops with
\* work remaining that no further pass dispatches.  The last part is stated
\* for max_parallel of at least 1 and `previous` lists without a cycle.
C29_DryRunCompletes ==
    dry_run =>
        /\ DryRunTouchesNothing
        /\ (max_parallel >= 1 /\ ~HasCycle(PreviousEdges(steps), steps)) => ~Stuck

\* the files a list declares: the pieces between commas, trimmed, that are
\* not empty
DeclaredFiles(list) == Range(NonEmptyOnly(FlatFiles(list)))

\* some input file of b is an output file of a
Feeds(a, b) == DeclaredFiles(a.output) \cap DeclaredFiles(b.input) # {}

\* sorted, and no element twice
StrictlySorted(seq) == \A k \in 1..(Len(seq) - 1) : StrLess(seq[k], seq[k + 1])

\* load_workflow derives the edges from the files in this step, every output
\* file having one producer
Derives ==
    /\ loaded = "raw" /\ loaded' # "raw"
    /\ ~has_explicit_deps(steps)
    /\ \A k \in 1..Len(load_errors') : load_errors'[k].kind # "MultipleProducers"

\* C30: when no step carries previous or next, after the derivation a is in
\* b.previous exactly when some input file of b (a piece between commas,
\* trimmed, not empty) is an output file of a, and exactly then b is in a.next;
\* every derived list is sorted and holds no id twice.
C30_EdgesFromFiles ==
    [][Derives =>
          \A i \in 1..Len(steps') : \A j \in 1..Len(steps') :
              LET a == steps'[i]
                  b == steps'[j]
              IN  /\ a.id \in Range(b.previous) <=> Feeds(a, b)
                  /\ b.id \in Range(a.next) <=> Feeds(a, b)
                  /\ StrictlySorted(a.previous)
                  /\ StrictlySorted(a.next)]_vars

\* a loaded workflow in which a step reads two files of another step and
\* names it once
C30_Witness ==
    /\ loaded = "ok"
    /\ \E i \in 1..Len(steps) : \E j \in 1..Len(steps) :
          /\ i # j
          /\ Cardinality(DeclaredFiles(steps[i].output) \cap DeclaredFiles(steps[j].input)) = 2
          /\ steps[j].previous = <<steps[i].id>>
          /\ steps[i].next = <<steps[j].id>>

\* load_workflow ends with a successful topological_sort in this step
Sorts == loaded = "raw" /\ loaded' = "ok"

\* the step list validate_workflow hands to topological_sort
HandedToSort == populate_dependencies(steps).steps

\* the steps of a list that have no `previous`, in list order
RootsOf(list) == SelectSeq(list, LAMBDA s : s.previous = <<>>)

\* C31: a successful topological_sort leaves a permutation of the steps it
\* was given: as many steps, each of them once and as it was; the steps
\* without `previous` come in the order they had in the list.
C31_SortPermutes ==
    [][Sorts =>
          /\ Len(steps') = Len(HandedToSort)
          /\ \A i \in 1..Len(HandedToSort) :
                Cardinality({j \in 1..Len(steps') : steps'[j] = HandedToSort[i]}) = 1
          /\ RootsOf(steps') = RootsOf(HandedToSort)]_vars

\* a sorted workflow of three steps in which c, a root, has moved in front of
\* b and behind the root a
C31_Witness ==
    /\ loaded = "ok"
    /\ Len(steps) = 3
    /\ steps[1].id = A /\ steps[1].previous = <<>>
    /\ steps[2].id = C /\ steps[2].previous = <<>>
    /\ steps[3].id = B /\ steps[3].previous # <<>>

\* some step of the planner's workflow is neither Completed nor Skipped
Unfinished(p) ==
    \E i \in 1..Len(p.steps) : StatusOf(p, p.steps[i].id) \notin {"Completed", "Skipped"}

\* mark_step_failed is called on a running step in this step
Fails ==
    \E id \in planner.running_steps :
        StatusOf(planner, id) = "Running" /\ StatusOf(planner', id) = "Failed"

\* C32: whatever calls the planner has been through, has_work_remaining is
\* true exactly when some step of the workflow is neither Completed nor
\* Skipped; mark_step_failed leaves it true and does not raise the completed
\* count of progress.
C32_WorkRemaining ==
    /\ [](has_work_remaining(planner) <=> Unfinished(planner))
    /\ [][Fails =>
             /\ has_work_remaining(planner')
             /\ progress(planner')[1] <= progress(planner)[1]
             /\ progress(planner')[2] = progress(planner)[2]]_vars

\* a planner with one step Failed and another Completed
C32_Witness ==
    /\ has_work_remaining(planner)
    /\ \E i \in 1..Len(planner.steps) : StatusOf(planner, planner.steps[i].id) = "Failed"
    /\ \E i \in 1..Len(planner.steps) : StatusOf(planner, planner.steps[i].id) = "Completed"
    /\ progress(planner)[1] >= 1

(***************************************************************************)
(* WorkflowState on its own: a new state, then mark_completed, mark_failed *)
(* and clear in any order on the ids of a small set.                       *)
(***************************************************************************)
LedgerIds == {<<Alphabet[2 + i]>> : i \in 1..MaxLedgerIds}

InitState ==
    /\ steps = <<>>
    /\ max_parallel = 1
    /\ dry_run = FALSE
    /\ pause_flag_path = FALSE
    /\ cpus = 1
    /\ InitEngine

StateMarkCompleted ==
    /\ \E id \in LedgerIds : state' = state_mark_completed(state, id)
    /\ UNCHANGED <<workflow_vars, config_vars, state_dir, pause_marker, files, disk, pc, last_run,
                   resumed, planner, running_count, ready_steps, workers, channel,
                   dispatched, succeeded>>

StateMarkFailed ==
    /\ \E id \in LedgerIds : state' = state_mark_failed(state, id)
    /\ UNCHANGED <<workflow_vars, config_vars, state_dir, pause_marker, files, disk, pc, last_run,
                   resumed, planner, running_count, ready_steps, workers, channel,
                   dispatched, succeeded>>

StateClear ==
    /\ state' = state_clear(state)
    /\ UNCHANGED <<workflow_vars, config_vars, state_dir, pause_marker, files, disk, pc, last_run,
                   resumed, planner, running_count, ready_steps, workers, channel,
                   dispatched, succeeded>>

NextState == StateMarkCompleted \/ StateMarkFailed \/ StateClear

SpecState == InitState /\ [][NextState]_vars

\* C33: on every state the calls can produce, mark_completed(x) adds x to
\* completed_steps and leaves failed_step unset whatever it was; mark_failed(x)
\* sets failed_step to x and leaves completed_steps alone; is_resume is true
\* exactly when completed_steps is not empty or failed_step is set; after
\* clear is_resume is false.
C33_StateTransitions ==
    /\ is_resume(state) <=> (state.completed_steps # {} \/ Len(state.failed_step) = 1)
    /\ ~is_resume(state_clear(state))
    /\ \A x \in LedgerIds :
          /\ state_mark_completed(state, x).completed_steps = state.completed_steps \cup {x}
          /\ state_mark_completed(state, x).failed_step = <<>>
          /\ state_mark_failed(state, x).failed_step = <<x>>
          /\ state_mark_failed(state, x).completed_steps = state.completed_steps

\* a state with completed steps whose failed step is one of them
C33_Witness ==
    /\ Cardinality(state.completed_steps) >= 2
    /\ state.failed_step # <<>>
    /\ state.failed_step[1] \in state.completed_steps

\* every id of every previous and next list is the id of a step of the list
RefsResolve(list) ==
    \A i \in 1..Len(list) :
        Range(list[i].previous) \cup Range(list[i].next) \subseteq StepIds(list)

\* C34: when every previous and next id resolves before the expansion, every
\* previous and next id of every step (suffixed in the expanded steps, as it
\* was in the others) is the id of a step after the expansion.
C34_ExpansionKeepsReferences ==
    [][(Expands /\ RefsResolve(steps)) => RefsResolve(steps')]_vars

\* the planner's thread counter is the sum of `threads` over its Running set
ThreadsAccounted(p) == p.current_threads_used = SumThreads(RunningSteps(p))

\* C35: at every point of a run current_threads_used is the sum of `threads`
\* over the steps in the Running set; it grows only when the coordinator
\* dispatches and shrinks only when the coordinator processes a result, and
\* the counter a result is subtracted from is never smaller than the threads
\* of its step.
C35_ThreadCounter ==
    [][/\ ThreadsAccounted(planner')
       /\ planner'.current_threads_used > planner.current_threads_used => Dispatches
       /\ (planner'.current_threads_used < planner.current_threads_used /\ pc' # "idle")
             => Receives
       /\ Receives =>
             /\ Head(channel).id \in planner.running_steps
             /\ planner.current_threads_used >= ThreadsOf(planner, Head(channel).id)]_vars

\* after a result has been processed two steps run and the counter is 2
C35_Witness ==
    /\ pc # "idle" /\ ~dry_run
    /\ succeeded # {}
    /\ Cardinality(planner.running_steps) = 2
    /\ planner.current_threads_used = 2
    /\ ThreadsAccounted(planner)

\* C36: at every point of a run, resumed runs with dropped ledger entries
\* included, every step that is Completed or Skipped has all the steps of its
\* `previous` list Completed or Skipped.
C36_FinishedStepsClosed ==
    pc # "idle" =>
        \A i \in 1..Len(steps) :
            StatusOf(planner, steps[i].id) \in {"Completed", "Skipped"}
                => DependenciesDone(planner, steps[i])

\* the run writes a state file that can be read back in this step
Persists == disk' # disk /\ disk'.kind = "ok"

\* C37: in every state a run persists, failed_step, when set, is the id of a
\* step of the workflow that is not in completed_steps, and the run ends in
\* the step that writes it, with the failure of that step.
C37_FailedStepPersisted ==
    /\ [](disk.kind = "ok" /\ disk.state.failed_step # <<>>
            => /\ disk.state.failed_step[1] \in StepIds(steps)
               /\ disk.state.failed_step[1] \notin disk.state.completed_steps)
    /\ [][(Persists /\ disk'.state.failed_step # <<>>)
             => /\ Receives /\ ~Head(channel).ok
                /\ disk'.state.failed_step = <<Head(channel).id>>
                /\ pc' = "idle"
                /\ last_run'.kind = "StepFailed"
                /\ last_run'.step = Head(channel).id]_vars

\* a run that had saved completions has returned with the failure of a step,
\* and the state file names that step
C37_Witness ==
    /\ pc = "idle"
    /\ last_run.kind = "StepFailed"
    /\ disk.kind = "ok"
    /\ disk.state.failed_step = <<last_run.step>>
    /\ disk.state.completed_steps # {}

\* load_workflow has ended with the cyclic-dependency error
CycleReported ==
    /\ loaded = "err"
    /\ \E k \in 1..Len(load_errors) : load_errors[k].kind = "CyclicDependency"

\* C38: validate_workflow reports a cyclic dependency only for a workflow
\* whose `previous` relation has a cycle, whatever its `next` lists hold and
\* however often a `previous` list names a step.
C38_CycleOnlyIfCyclic ==
    CycleReported => HasCycle(PreviousEdges(steps), steps)

\* load_workflow gets as far as topological_sort in this step
RunsSort ==
    /\ loaded = "raw"
    /\ loaded' \in {"ok", "panic"} \/ CycleReported'

\* C39: in the topological_sort of a workflow that has passed the reference
\* checks no in-degree counter that is 0 is decremented, in the build that
\* checks the subtraction and in the build that wraps alike.
C39_NoUnderflow ==
    [][RunsSort => ~SortedOrder(HandedToSort, TRUE).panic]_vars

(***************************************************************************)
(* Runs of several workflow files from one working directory.  The files   *)
(* hold the same steps (a pipeline copied to another directory or saved    *)
(* under another extension); what tells them apart is their path.  A run   *)
(* is followed from its start through the completions it saves to the end  *)
(* of the process.  In this specification a WorkflowState carries its      *)
(* workflow_path field.                                                    *)
(***************************************************************************)
WorkflowPaths ==
    {<<"p", ".", "y">>, <<"d", "/", "p", ".", "y">>, <<"p", ".", "x">>, <<"q", ".", "y">>}

\* WorkflowState::state_file_path_for
state_file_path_for(path) ==
    <<".", "r", "u", "s", "t", "r", "u", "n", "n", "e", "r", "/">>
        \o UnwrapOr(file_stem(path), <<"w", "o", "r", "k", "f", "l", "o", "w">>)
        \o <<".", "s", "t", "a", "t", "e">>

\* WorkflowState::new(workflow_path)
NewStateFor(path) ==
    [workflow_path |-> path, completed_steps |-> {}, failed_step |-> <<>>]

\* WorkflowState::load(path).unwrap_or_else(|_| WorkflowState::new(path)):
\* whatever deserializes from the state file of the path is taken
LoadOrNewFor(dir, path) ==
    IF state_file_path_for(path) \in DOMAIN dir
    THEN dir[state_file_path_for(path)]
    ELSE NewStateFor(path)

\* WorkflowState::save: the state is written to the file of its workflow_path
SaveFor(dir, st) ==
    LET f == state_file_path_for(st.workflow_path)
    IN  [g \in DOMAIN dir \cup {f} |-> IF g = f THEN st ELSE dir[g]]

InitLedger ==
    /\ steps \in {FileChain, Independent}
    /\ max_parallel = 1
    /\ dry_run = FALSE
    /\ pause_flag_path = FALSE
    /\ cpus = MaxCpus
    /\ InitEngine

\* the next process is started with another workflow file
Invoke ==
    /\ pc = "idle"
    /\ \E path \in WorkflowPaths \ {workflow_path} : workflow_path' = path
    /\ UNCHANGED <<workflow_vars, max_parallel, dry_run, pause_flag_path, cpus,
                   wildcard_files, state_dir, pause_marker, files, disk, run_vars, workers>>

\* engine.rs 137-188: the state of the workflow path is loaded and verified
\* and the planner is created from it
LedgerRunStart ==
    /\ pc = "idle"
    /\ loaded = "ok"
    /\ LET st == VerifyCompleted(LoadOrNewFor(state_dir, workflow_path), steps, files)
       IN  /\ state' = st
           /\ planner' = CreatePlanner(st, steps, dry_run, max_parallel, cpus)
    /\ resumed' = StartedFrom(last_run, steps, files)
    /\ pc' = "schedule"
    /\ UNCHANGED <<workflow_vars, config_vars, state_dir, pause_marker, files, disk, last_run,
                   running_count, ready_steps, workers, channel, dispatched, succeeded>>

\* a ready step is dispatched, its command writes its outputs and exits with
\* status 0, and the coordinator processes the result and saves the state
LedgerRunStep ==
    /\ pc = "schedule"
    /\ \E k \in 1..Len(get_ready_steps(planner)) :
          LET step == get_ready_steps(planner)[k]
              st   == state_mark_completed(state, step.id)
          IN  /\ planner' = mark_step_completed(mark_step_running(planner, step.id), step.id)
              /\ files' = files \cup DeclaredOutputs(step)
              /\ state' = st
              /\ state_dir' = SaveFor(state_dir, st)
    /\ UNCHANGED <<workflow_vars, config_vars, pause_marker, disk, pc, last_run, resumed,
                   running_count, ready_steps, workers, channel, dispatched, succeeded>>

\* the run returns, or the process is killed before it does
LedgerRunEnd ==
    /\ pc = "schedule"
    /\ Return([kind |-> IF has_work_remaining(planner) THEN "Crashed" ELSE "Ok"])
    /\ UNCHANGED <<workflow_vars, config_vars, state_dir, pause_marker, files, disk, resumed,
                   workers>>

NextLedger ==
    \/ LoadWorkflow
    \/ Invoke
    \/ LedgerRunStart
    \/ LedgerRunStep
    \/ LedgerRunEnd

SpecLedger == InitLedger /\ [][NextLedger]_vars

\* C40: the persisted state a run of a workflow file uses was written by a
\* run of the same workflow file: a run that holds a step as Skipped holds a
\* state whose workflow_path is the path it was started with.
C40_LedgerIsolation ==
    (pc = "schedule" /\ \E i \in 1..Len(steps) : StatusOf(planner, steps[i].id) = "Skipped")
        => state.workflow_path = workflow_path

=============================================================================
